---- MODULE Spec2Model ----
(***************************************************************************)
(* Model of the request dispatch pipeline of bimakw/api-gateway: the       *)
(* per-service circuit breaker (internal/circuitbreaker), the round-robin  *)
(* load balancer (internal/loadbalancer), the retry engine                 *)
(* (internal/retry) and the proxy orchestrator (internal/proxy) that       *)
(* composes them for every request.                                        *)
(***************************************************************************)
EXTENDS Integers, FiniteSets, Sequences, TLC

(***************************************************************************)
(* Bounds of the model.                                                    *)
(***************************************************************************)
\* Number of requests the gateway handles concurrently (slots are reused).
NumReqs == 2
\* Number of concurrent callers of the breaker in SpecCB (slots are reused).
NumCallers == 3
\* The clock runs from 0 to MaxTime.
MaxTime == 4
\* Number of backends of the service.
NumBackends == 2
\* Configuration handed to circuitbreaker.New and retry.New.
CfgMaxFailures == 2
CfgResetTimeout == 2
CfgHalfOpenMaxRequests == 1
CfgSuccessThreshold == 2
CfgMaxRetries == 1
\* Number of concurrent callers of Select in SpecLB.
NumSelectors == 2
\* Number of consecutive Select results SpecLB remembers.
MaxWindow == 5
\* The largest MaxRetries SpecRetry hands to retry.New.
TopMaxRetries == 3
\* The largest retry index SpecDelay hands to GetDelay.
TopRetryIndex == 3
\* RATE_LIMIT_BURST, the burst size handed to the RateLimit middleware.
BurstSize == 2
\* Number of concurrent callers of the rate limiter in SpecRL.
NumLimited == 2
\* Calls of AllowWithBurst and advances of the clock in a behaviour of SpecRL.
MaxRLCalls == 4
MaxRLTicks == 2
\* The longest entry of a backend list SpecParse parses, in tokens.
MaxEntry == 7

Reqs == 1..NumReqs
Callers == 1..NumCallers
Backends == 0..(NumBackends - 1)
Times == 0..MaxTime
Selectors == 1..NumSelectors
Limited == 1..NumLimited

\* Status codes a backend (or the forwarder's error hook) answers with.
Statuses == {200, 500, 503}

(***************************************************************************)
(* Circuit breaker (package circuitbreaker).                               *)
(***************************************************************************)
StateClosed == "closed"
StateOpen == "open"
StateHalfOpen == "half-open"

ErrNil == "nil"
ErrCircuitOpen == "circuit breaker is open"
ErrTooManyRequests == "too many requests in half-open state"

\* circuitbreaker.New: non-positive settings are replaced by the defaults.
NewConfig(c) ==
  [ MaxFailures         |-> IF c.MaxFailures <= 0 THEN 5 ELSE c.MaxFailures,
    ResetTimeout        |-> IF c.ResetTimeout <= 0 THEN 30 ELSE c.ResetTimeout,
    HalfOpenMaxRequests |-> IF c.HalfOpenMaxRequests <= 0 THEN 3
                            ELSE c.HalfOpenMaxRequests,
    SuccessThreshold    |-> IF c.SuccessThreshold <= 0 THEN 2
                            ELSE c.SuccessThreshold ]

config ==
  NewConfig([ MaxFailures         |-> CfgMaxFailures,
              ResetTimeout        |-> CfgResetTimeout,
              HalfOpenMaxRequests |-> CfgHalfOpenMaxRequests,
              SuccessThreshold    |-> CfgSuccessThreshold ])

\* The breaker as circuitbreaker.New returns it.  lastFailure is the zero
\* time; it is read only in state open, where toOpen has stamped it.
NewBreaker ==
  [ state                |-> StateClosed,
    failures             |-> 0,
    lastFailure          |-> 0,
    halfOpenRequests     |-> 0,
    consecutiveSuccesses |-> 0 ]

\* Variant: the reopening does not stamp lastFailure.
toOpen_NoStamp(c, t) ==
  [c EXCEPT !.state = StateOpen, !.consecutiveSuccesses = 0]

toOpen(c, t) ==
  [c EXCEPT !.state = StateOpen, !.lastFailure = t, !.consecutiveSuccesses = 0]

\* Variant: closing keeps the failure count.
toClosed_KeepFailures(c) ==
  [c EXCEPT !.state = StateClosed, !.consecutiveSuccesses = 0,
            !.halfOpenRequests = 0]

toClosed(c) ==
  [c EXCEPT !.state = StateClosed, !.failures = 0,
            !.consecutiveSuccesses = 0, !.halfOpenRequests = 0]

\* Variant: the transitioning call is counted as the first probe.
toHalfOpen_Counted(c) ==
  [c EXCEPT !.state = StateHalfOpen, !.halfOpenRequests = 1,
            !.consecutiveSuccesses = 0]

toHalfOpen(c) ==
  [c EXCEPT !.state = StateHalfOpen, !.halfOpenRequests = 0,
            !.consecutiveSuccesses = 0]

\* Variant: an open breaker admits without waiting for ResetTimeout.
beforeRequest_NoWait(c, t) ==
  CASE c.state = StateClosed -> [cb |-> c, err |-> ErrNil]
    [] c.state = StateOpen ->
         IF t - c.lastFailure >= 0
         THEN [cb |-> toHalfOpen(c), err |-> ErrNil]
         ELSE [cb |-> c, err |-> ErrCircuitOpen]
    [] c.state = StateHalfOpen ->
         IF c.halfOpenRequests >= config.HalfOpenMaxRequests
         THEN [cb |-> c, err |-> ErrTooManyRequests]
         ELSE [cb |-> [c EXCEPT !.halfOpenRequests = @ + 1], err |-> ErrNil]

\* Variant: after ResetTimeout an open breaker admits but stays open.
beforeRequest_NoTransition(c, t) ==
  CASE c.state = StateClosed -> [cb |-> c, err |-> ErrNil]
    [] c.state = StateOpen ->
         IF t - c.lastFailure >= config.ResetTimeout
         THEN [cb |-> c, err |-> ErrNil]
         ELSE [cb |-> c, err |-> ErrCircuitOpen]
    [] c.state = StateHalfOpen ->
         IF c.halfOpenRequests >= config.HalfOpenMaxRequests
         THEN [cb |-> c, err |-> ErrTooManyRequests]
         ELSE [cb |-> [c EXCEPT !.halfOpenRequests = @ + 1], err |-> ErrNil]

\* Variant: the half-open limit is compared with > instead of >=.
beforeRequest_LimitOffByOne(c, t) ==
  CASE c.state = StateClosed -> [cb |-> c, err |-> ErrNil]
    [] c.state = StateOpen ->
         IF t - c.lastFailure >= config.ResetTimeout
         THEN [cb |-> toHalfOpen(c), err |-> ErrNil]
         ELSE [cb |-> c, err |-> ErrCircuitOpen]
    [] c.state = StateHalfOpen ->
         IF c.halfOpenRequests > config.HalfOpenMaxRequests
         THEN [cb |-> c, err |-> ErrTooManyRequests]
         ELSE [cb |-> [c EXCEPT !.halfOpenRequests = @ + 1], err |-> ErrNil]

\* beforeRequest under the breaker's mutex, at time t: the breaker after the
\* call and the error returned.
beforeRequest(c, t) ==
  CASE c.state = StateClosed -> [cb |-> c, err |-> ErrNil]
    [] c.state = StateOpen ->
         IF t - c.lastFailure >= config.ResetTimeout
         THEN [cb |-> toHalfOpen(c), err |-> ErrNil]
         ELSE [cb |-> c, err |-> ErrCircuitOpen]
    [] c.state = StateHalfOpen ->
         IF c.halfOpenRequests >= config.HalfOpenMaxRequests
         THEN [cb |-> c, err |-> ErrTooManyRequests]
         ELSE [cb |-> [c EXCEPT !.halfOpenRequests = @ + 1], err |-> ErrNil]

\* Variant: a failure recorded while the breaker is open restarts the open
\* period.
afterRequest_OpenExtends(c, success, t) ==
  CASE c.state = StateClosed ->
         IF success
         THEN [c EXCEPT !.failures = 0]
         ELSE LET d == [c EXCEPT !.failures = @ + 1, !.lastFailure = t]
              IN  IF d.failures >= config.MaxFailures THEN toOpen(d, t) ELSE d
    [] c.state = StateHalfOpen ->
         IF success
         THEN LET d == [c EXCEPT !.consecutiveSuccesses = @ + 1]
              IN  IF d.consecutiveSuccesses >= config.SuccessThreshold
                  THEN toClosed(d) ELSE d
         ELSE toOpen(c, t)
    [] OTHER -> IF success THEN c ELSE [c EXCEPT !.lastFailure = t]

\* Variant: the breaker opens only when failures exceeds MaxFailures.
afterRequest_OpenOffByOne(c, success, t) ==
  CASE c.state = StateClosed ->
         IF success
         THEN [c EXCEPT !.failures = 0]
         ELSE LET d == [c EXCEPT !.failures = @ + 1, !.lastFailure = t]
              IN  IF d.failures > config.MaxFailures THEN toOpen(d, t) ELSE d
    [] c.state = StateHalfOpen ->
         IF success
         THEN LET d == [c EXCEPT !.consecutiveSuccesses = @ + 1]
              IN  IF d.consecutiveSuccesses >= config.SuccessThreshold
                  THEN toClosed(d) ELSE d
         ELSE toOpen(c, t)
    [] OTHER -> c

\* Variant: the breaker closes only when the successes exceed the threshold.
afterRequest_CloseOffByOne(c, success, t) ==
  CASE c.state = StateClosed ->
         IF success
         THEN [c EXCEPT !.failures = 0]
         ELSE LET d == [c EXCEPT !.failures = @ + 1, !.lastFailure = t]
              IN  IF d.failures >= config.MaxFailures THEN toOpen(d, t) ELSE d
    [] c.state = StateHalfOpen ->
         IF success
         THEN LET d == [c EXCEPT !.consecutiveSuccesses = @ + 1]
              IN  IF d.consecutiveSuccesses > config.SuccessThreshold
                  THEN toClosed(d) ELSE d
         ELSE toOpen(c, t)
    [] OTHER -> c

\* afterRequest under the breaker's mutex, at time t.
afterRequest(c, success, t) ==
  CASE c.state = StateClosed ->
         IF success
         THEN [c EXCEPT !.failures = 0]
         ELSE LET d == [c EXCEPT !.failures = @ + 1, !.lastFailure = t]
              IN  IF d.failures >= config.MaxFailures THEN toOpen(d, t) ELSE d
    [] c.state = StateHalfOpen ->
         IF success
         THEN LET d == [c EXCEPT !.consecutiveSuccesses = @ + 1]
              IN  IF d.consecutiveSuccesses >= config.SuccessThreshold
                  THEN toClosed(d) ELSE d
         ELSE toOpen(c, t)
    [] OTHER -> c

AllowRequest(c, t) ==
  LET b == beforeRequest(c, t) IN [cb |-> b.cb, ok |-> b.err = ErrNil]

RecordSuccess(c, t) == afterRequest(c, TRUE, t)

RecordFailure(c, t) == afterRequest(c, FALSE, t)

\* Variant: Reset only sets the state.
Reset_StateOnly(c) == [c EXCEPT !.state = StateClosed]

Reset(c) == toClosed(c)

(***************************************************************************)
(* Round-robin load balancer (package loadbalancer).                       *)
(***************************************************************************)
\* "No backend": the nil *Backend.
Nil == -1

\* loadbalancer.New for a list of n backends, numbered from 0, that start
\* healthy.  counter holds RoundRobinSelector.counter modulo len(backends),
\* the only part of it Select reads.
NewSelector(n) == [ healthy |-> [b \in 0..(n - 1) |-> TRUE], counter |-> 0 ]

\* The balancer createServiceProxy builds: one backend per configured URL.
NewLoadBalancer == NewSelector(NumBackends)

\* len(r.backends)
NumOf(l) == Cardinality(DOMAIN l.healthy)

HealthyCount(l) == Cardinality({b \in DOMAIN l.healthy : l.healthy[b]})

\* Variant: the backend the counter indexes is returned whatever its flag.
SelectStep_IgnoresHealth(l, i) ==
  IF i = 0 /\ (NumOf(l) = 0 \/ HealthyCount(l) = 0)
  THEN [lb |-> l, done |-> TRUE, backend |-> Nil, i |-> 0]
  ELSE LET idx == (l.counter + 1) % NumOf(l)
       IN  [lb |-> [l EXCEPT !.counter = idx], done |-> TRUE, backend |-> idx,
            i |-> 0]

\* Variant: the counter is read but not advanced.
SelectStep_NoAdvance(l, i) ==
  IF i = 0 /\ (NumOf(l) = 0 \/ HealthyCount(l) = 0)
  THEN [lb |-> l, done |-> TRUE, backend |-> Nil, i |-> 0]
  ELSE LET idx == l.counter % NumOf(l)
       IN  IF l.healthy[idx]
           THEN [lb |-> l, done |-> TRUE, backend |-> idx, i |-> 0]
           ELSE IF i + 1 >= NumOf(l)
                THEN [lb |-> l, done |-> TRUE, backend |-> Nil, i |-> 0]
                ELSE [lb |-> l, done |-> FALSE, backend |-> Nil, i |-> i + 1]

\* One step of RoundRobinSelector.Select, i loop iterations having been
\* made: the empty-list and healthy-count checks on entry, then one
\* iteration (the atomic add and the test of the backend it indexes).
SelectStep(l, i) ==
  IF i = 0 /\ (NumOf(l) = 0 \/ HealthyCount(l) = 0)
  THEN [lb |-> l, done |-> TRUE, backend |-> Nil, i |-> 0]
  ELSE LET idx == (l.counter + 1) % NumOf(l)
           l2  == [l EXCEPT !.counter = idx]
       IN  IF l.healthy[idx]
           THEN [lb |-> l2, done |-> TRUE, backend |-> idx, i |-> 0]
           ELSE IF i + 1 >= NumOf(l)
                THEN [lb |-> l2, done |-> TRUE, backend |-> Nil, i |-> 0]
                ELSE [lb |-> l2, done |-> FALSE, backend |-> Nil, i |-> i + 1]

\* The atomic adds a call of Select has made when the step it takes after
\* i loop iterations is its last: none when it returns on entry, else one
\* per iteration.
Adds(l, i) ==
  IF i = 0 /\ (NumOf(l) = 0 \/ HealthyCount(l) = 0) THEN 0 ELSE i + 1

SetHealthy(l, b, h) == [l EXCEPT !.healthy[b] = h]

\* The strategies loadbalancer.New knows; any other name is round-robin.
Strategies == {"round-robin", "random"}

\* RandomSelector.Select: the backends it may return, Nil when the list is
\* empty or holds no healthy backend, else any of the healthy ones.
RandomSelect(l) ==
  IF NumOf(l) = 0 THEN {Nil}
  ELSE LET healthy == {b \in DOMAIN l.healthy : l.healthy[b]}
       IN  IF healthy = {} THEN {Nil} ELSE healthy

(***************************************************************************)
(* Retry engine (package retry).                                           *)
(***************************************************************************)
ErrContext == "context canceled"
ErrMaxRetries == "max retries exceeded"

\* The delays of a configuration are whole numbers of milliseconds (main
\* builds them as a count times time.Millisecond), the defaults being 100
\* ms and 5 s; Multiplier, JitterFactor and the random draw are rationals
\* [n, d] with d > 0, computed with exactly.  A delay GetDelay returns is a
\* whole number of nanoseconds, held as ms whole milliseconds and ns
\* nanoseconds beyond them.
Duration(ms, ns) == [ms |-> ms, ns |-> ns]

Rat(n, d) == [n |-> n, d |-> d]

RatMul(x, y) == Rat(x.n * y.n, x.d * y.d)

RatAdd(x, y) == Rat(x.n * y.d + y.n * x.d, x.d * y.d)

RatLeq(x, y) == x.n * y.d <= y.n * x.d

RatEq(x, y) == x.n * y.d = y.n * x.d

RECURSIVE RatPow(_, _)
RatPow(x, e) == IF e <= 0 THEN Rat(1, 1) ELSE RatMul(x, RatPow(x, e - 1))

\* time.Duration(f), f milliseconds: the conversion drops the fraction of
\* a nanosecond (towards zero).  The nanoseconds beyond the whole
\* milliseconds are computed in two steps of three digits.
Truncate(x) ==
  LET a  == IF x.n >= 0 THEN x.n ELSE -x.n
      k  == (a % x.d) * 1000
      ms == a \div x.d
      ns == (k \div x.d) * 1000 + ((k % x.d) * 1000) \div x.d
  IN  IF x.n >= 0 THEN Duration(ms, ns) ELSE Duration(-ms, -ns)

\* DefaultConfig().RetryableStatusCodes.
RetryableStatusCodes == {502, 503, 504}

\* retry.New: a negative MaxRetries becomes 0, non-positive delays and
\* multiplier, a jitter factor outside [0, 1] and an empty list of
\* retryable status codes become the defaults.
NewRetryer(cfg) ==
  [ MaxRetries   |-> IF cfg.MaxRetries < 0 THEN 0 ELSE cfg.MaxRetries,
    InitialDelay |-> IF cfg.InitialDelay <= 0 THEN 100 ELSE cfg.InitialDelay,
    MaxDelay     |-> IF cfg.MaxDelay <= 0 THEN 5000 ELSE cfg.MaxDelay,
    Multiplier   |-> IF cfg.Multiplier.n <= 0 THEN Rat(2, 1) ELSE cfg.Multiplier,
    JitterFactor |-> IF cfg.JitterFactor.n < 0 \/ cfg.JitterFactor.n > cfg.JitterFactor.d
                     THEN Rat(1, 10) ELSE cfg.JitterFactor,
    RetryableStatusCodes |->
      IF cfg.RetryableStatusCodes = {} THEN RetryableStatusCodes
      ELSE cfg.RetryableStatusCodes ]

\* The retry.Config main hands to proxy.New: the delays, multiplier and
\* jitter factor of the loaded configuration (here its defaults), and no
\* status codes.
RetryConfig(maxRetries) ==
  [ MaxRetries |-> maxRetries, InitialDelay |-> 100, MaxDelay |-> 5000,
    Multiplier |-> Rat(2, 1), JitterFactor |-> Rat(1, 10),
    RetryableStatusCodes |-> {} ]

\* The gateway's retryer.
retryer == NewRetryer(RetryConfig(CfgMaxRetries))

MaxRetries == retryer.MaxRetries

\* GetDelay(attempt), rnd being the value of rand.Float64(), in [0, 1).
GetDelay(rt, attempt, rnd) ==
  IF attempt <= 0 THEN Duration(rt.InitialDelay, 0)
  ELSE LET exp    == RatMul(Rat(rt.InitialDelay, 1), RatPow(rt.Multiplier, attempt))
           capped == IF ~RatLeq(exp, Rat(rt.MaxDelay, 1))
                     THEN Rat(rt.MaxDelay, 1) ELSE exp
           jitter == RatMul(RatMul(capped, rt.JitterFactor),
                            RatAdd(RatMul(rnd, Rat(2, 1)), Rat(-1, 1)))
       IN  Truncate(IF rt.JitterFactor.n > 0 THEN RatAdd(capped, jitter)
                    ELSE capped)

ShouldRetry(rt, statusCode) == statusCode \in rt.RetryableStatusCodes

\* The proxy's fn never returns an error; errors of other callers are
\* classified by the kind of their message.
TransientErrors == {"connection refused", "connection reset", "no such host",
                    "i/o timeout", "temporary failure",
                    "network is unreachable", "connection timed out", "EOF"}

isTransientError(err) == err \in TransientErrors

\* Result{Attempts: 0} at the start of Execute.
NewResult ==
  [ Attempts |-> 0, LastError |-> ErrNil, StatusCode |-> 0, Retried |-> FALSE ]

\* Variant: a cancellation during the backoff sleep is not acted on.
ExecBegin_SleepIgnoresCancel(res, attempt, cancel) ==
  LET r1 == [res EXCEPT !.Attempts = attempt + 1]
  IN  IF cancel = "before"
      THEN [result |-> [r1 EXCEPT !.LastError = ErrContext], done |-> TRUE]
      ELSE IF attempt > 0
           THEN [result |-> [r1 EXCEPT !.Retried = TRUE], done |-> FALSE]
           ELSE [result |-> r1, done |-> FALSE]

\* Execute, loop iteration `attempt`, up to the call of fn: the context
\* check, then (on a retry) the backoff sleep.  cancel says where the
\* context is found cancelled: "before" the attempt, during the "sleep", or
\* "no".
ExecBegin(res, attempt, cancel) ==
  LET r1 == [res EXCEPT !.Attempts = attempt + 1]
  IN  IF cancel = "before"
      THEN [result |-> [r1 EXCEPT !.LastError = ErrContext], done |-> TRUE]
      ELSE IF attempt > 0
           THEN LET r2 == [r1 EXCEPT !.Retried = TRUE]
                IN  IF cancel = "sleep"
                    THEN [result |-> [r2 EXCEPT !.LastError = ErrContext],
                          done |-> TRUE]
                    ELSE [result |-> r2, done |-> FALSE]
           ELSE [result |-> r1, done |-> FALSE]

\* Variant: every error is retried, transient or not.
ExecAfterFn_RetriesAnyError(rt, res, attempt, statusCode, err) ==
  LET r1 == [res EXCEPT !.StatusCode = statusCode, !.LastError = err]
  IN  IF err = ErrNil /\ ~ShouldRetry(rt, statusCode)
      THEN [result |-> r1, done |-> TRUE]
      ELSE IF attempt + 1 > rt.MaxRetries
           THEN [result |->
                   IF r1.LastError = ErrNil
                   THEN [r1 EXCEPT !.LastError = ErrMaxRetries] ELSE r1,
                 done |-> TRUE]
           ELSE [result |-> r1, done |-> FALSE]

\* Variant: the loop runs one iteration more than MaxRetries allows.
ExecAfterFn_OneMore(rt, res, attempt, statusCode, err) ==
  LET r1 == [res EXCEPT !.StatusCode = statusCode, !.LastError = err]
  IN  IF err = ErrNil /\ ~ShouldRetry(rt, statusCode)
      THEN [result |-> r1, done |-> TRUE]
      ELSE IF err # ErrNil /\ ~isTransientError(err)
           THEN [result |-> r1, done |-> TRUE]
           ELSE IF attempt + 1 > rt.MaxRetries + 1
                THEN [result |->
                        IF r1.LastError = ErrNil
                        THEN [r1 EXCEPT !.LastError = ErrMaxRetries] ELSE r1,
                      done |-> TRUE]
                ELSE [result |-> r1, done |-> FALSE]

\* Execute of retryer rt, loop iteration `attempt`, from the return of fn:
\* whether the loop returns, and the result.  The loop also ends when
\* attempt reaches MaxRetries, with "max retries exceeded" if no error is
\* recorded.
ExecAfterFn(rt, res, attempt, statusCode, err) ==
  LET r1 == [res EXCEPT !.StatusCode = statusCode, !.LastError = err]
  IN  IF err = ErrNil /\ ~ShouldRetry(rt, statusCode)
      THEN [result |-> r1, done |-> TRUE]
      ELSE IF err # ErrNil /\ ~isTransientError(err)
           THEN [result |-> r1, done |-> TRUE]
           ELSE IF attempt + 1 > rt.MaxRetries
                THEN [result |->
                        IF r1.LastError = ErrNil
                        THEN [r1 EXCEPT !.LastError = ErrMaxRetries] ELSE r1,
                      done |-> TRUE]
                ELSE [result |-> r1, done |-> FALSE]

(***************************************************************************)
(* The rate limiter (package ratelimit) and the RateLimit middleware.      *)
(* Time is counted in ticks of 100 ns and tokens in units of 10^-7 token:  *)
(* on the values of the model the float64 arithmetic of the code is exact. *)
(* The keys expire after two windows, longer than a behaviour of the model *)
(* lasts.                                                                  *)
(***************************************************************************)
TicksPerSecond == 10000000
TokenUnit == 10000000
\* fmt.Sprintf("%f") writes six decimals: the stored unit is 10^-6 token.
StoredUnit == 10
\* RATE_LIMIT_RPM and the window (time.Minute, in seconds).
RequestsPerMinute == 60
WindowSeconds == 60

\* ratelimit.New(client, requestsPerWindow, window).
NewRateLimiter(requests, window) == [requests |-> requests, window |-> window]

min(a, b) == IF a < b THEN a ELSE b

\* The tokens as the next call reads them back: Sprintf("%f", tokens) rounds
\* to the nearest stored unit (a tie, which no value of the model hits, to
\* the even one) and Sscanf("%f") parses that decimal.
Sprintf_f(tokens) ==
  LET q == tokens \div StoredUnit
      r == tokens % StoredUnit
  IN  IF 2 * r > StoredUnit \/ (2 * r = StoredUnit /\ q % 2 = 1)
      THEN (q + 1) * StoredUnit
      ELSE q * StoredUnit

\* The KV store without the two keys of the bucket.
NoBucket == [present |-> FALSE, tokens |-> 0, last |-> 0]

\* The first pipeline (two Gets): a missing key and a failed read both give
\* err != nil, hence a full bucket last updated now.
ReadBucket(kv, up, burstSize, t) ==
  IF up /\ kv.present
  THEN [tokens |-> kv.tokens, lastUpdate |-> kv.last]
  ELSE [tokens |-> burstSize * TokenUnit, lastUpdate |-> t]

\* elapsed.Seconds() * tokensPerSecond, for l.window in seconds.
TokensToAdd(l, elapsed) ==
  (elapsed \div l.window) * l.requests
    + ((elapsed % l.window) * l.requests) \div l.window

Refill(l, burstSize, tokens, lastUpdate, t) ==
  min(burstSize * TokenUnit, tokens + TokensToAdd(l, t - lastUpdate))

Take_NoConsume(tokens) ==
  [allowed |-> tokens >= TokenUnit, tokens |-> tokens]

\* allowed := tokens >= 1; if allowed { tokens-- }
Take(tokens) ==
  [allowed |-> tokens >= TokenUnit,
   tokens  |-> IF tokens >= TokenUnit THEN tokens - TokenUnit ELSE tokens]

\* The second pipeline (two Sets); its error is dropped.
WriteBucket(kv, up, tokens, t) ==
  IF up THEN [present |-> TRUE, tokens |-> Sprintf_f(tokens), last |-> t]
        ELSE kv

\* The Result and error AllowWithBurst returns; int(tokens) drops the
\* fraction towards zero.
AllowResult(l, allowed, tokens) ==
  [Allowed    |-> allowed,
   Remaining  |-> IF tokens >= 0 THEN tokens \div TokenUnit
                  ELSE -((-tokens) \div TokenUnit),
   ResetAfter |-> (TicksPerSecond * l.window) \div l.requests,
   err        |-> ErrNil]

\* The RateLimit middleware after AllowWithBurst: the status it writes, or
\* next when it hands the request on.
RateLimit(result) ==
  IF result.err # ErrNil THEN [status |-> 500, next |-> FALSE]
  ELSE IF ~result.Allowed THEN [status |-> 429, next |-> FALSE]
  ELSE [status |-> 0, next |-> TRUE]

(***************************************************************************)
(* The health checker (package health).  A checker holds, per service, the *)
(* status of each instance and the aggregated status, and the callbacks    *)
(* registered with it.                                                     *)
(***************************************************************************)
StatusHealthy   == "healthy"
StatusUnhealthy == "unhealthy"
StatusUnknown   == "unknown"

\* The services of loadServicesFromEnv; the load balancer of the model is
\* that of the first one.
Services == {"auth-service", "user-service"}
LBService == "auth-service"

\* The callbacks main registers with the checker (it registers none), and
\* the one the proxy offers.
MainCallbacks == {}
ProxyCallbacks == {"UpdateBackendHealth"}

\* NewChecker over services with size[s] backends each.
NewChecker(size, callbacks) ==
  [ inst |-> [s \in DOMAIN size |-> [b \in 0..(size[s] - 1) |-> StatusUnknown]],
    agg  |-> [s \in DOMAIN size |-> StatusUnknown],
    callbacks |-> callbacks ]

\* The status checkInstance hands to updateInstanceHealth for a probe: ok
\* when the instance answered 2xx; a request made under a cancelled
\* context fails.
ProbeStatus(ok, ctxDone) ==
  IF ok /\ ~ctxDone THEN StatusHealthy ELSE StatusUnhealthy

\* Variant: the first result of an instance is not taken for a change.
statusChanged_NotFromUnknown(previousStatus, status) ==
  previousStatus # status /\ previousStatus # StatusUnknown

\* statusChanged of updateInstanceHealth.
statusChanged(previousStatus, status) == previousStatus # status

\* The status a callback's healthy argument reports.
ReportedStatus(healthy) ==
  IF healthy THEN StatusHealthy ELSE StatusUnhealthy

\* notifyCallbacks(serviceName, instanceURL, healthy) as it acts on the load
\* balancer l: ReverseProxy.UpdateBackendHealth, when registered, forwards
\* to SetHealthy.
notifyCallbacks(callbacks, l, s, b, healthy) ==
  IF "UpdateBackendHealth" \in callbacks /\ s = LBService
  THEN SetHealthy(l, b, healthy)
  ELSE l

AggregatedStatus_AllHealthy(instances) ==
  IF \A b \in DOMAIN instances : instances[b] = StatusHealthy
  THEN StatusHealthy ELSE StatusUnhealthy

\* The aggregated status updateAggregatedHealth computes from the statuses
\* of a service's instances.
AggregatedStatus(instances) ==
  LET healthyCount ==
        Cardinality({b \in DOMAIN instances : instances[b] = StatusHealthy})
  IN  IF healthyCount = Cardinality(DOMAIN instances) THEN StatusHealthy
      ELSE IF healthyCount > 0 THEN StatusHealthy
      ELSE StatusUnhealthy

\* updateAggregatedHealth: a service without instances is skipped.
updateAggregatedHealth(c) ==
  [c EXCEPT !.agg = [s \in DOMAIN c.agg |->
                       IF DOMAIN c.inst[s] = {} THEN c.agg[s]
                       ELSE AggregatedStatus(c.inst[s])]]

LoopExits_StopOnly(stopped, ctxDone) == stopped

\* The select of Start returns on the closed stopCh or the done context.
LoopExits(stopped, ctxDone) == stopped \/ ctxDone

(***************************************************************************)
(* The breaker registry (circuitbreaker.Registry).  A breaker is known by  *)
(* the order of its creation; made counts the calls of New.                *)
(***************************************************************************)
NewRegistry == [breakers |-> [n \in Services |-> Nil], made |-> 0]

\* The first part of Get, under the read lock: the breaker of name, or Nil.
Lookup(r, name) == r.breakers[name]

GetOrCreate_NoDoubleCheck(r, name) ==
  [ r  |-> [r EXCEPT !.breakers[name] = r.made + 1, !.made = @ + 1],
    cb |-> r.made + 1 ]

\* The second part of Get, under the write lock: the double check, and the
\* creation when the name is still missing.
GetOrCreate(r, name) ==
  IF r.breakers[name] # Nil
  THEN [r |-> r, cb |-> r.breakers[name]]
  ELSE [ r  |-> [r EXCEPT !.breakers[name] = r.made + 1, !.made = @ + 1],
         cb |-> r.made + 1 ]

(***************************************************************************)
(* The request body in proxyWithRetry.  A body is a sequence of bytes; the *)
(* buffer bodyBytes is nil or a body.                                      *)
(***************************************************************************)
NoBytes == [nil |-> TRUE, bytes |-> << >>]

\* r.Method != GET && r.Method != HEAD (r.Body of a served request is
\* never nil).
HasBody(method) == method \notin {"GET", "HEAD"}

\* bodyBytes after the buffering: io.ReadAll of the whole body (an empty
\* body gives an empty, non-nil slice), or nil for GET and HEAD.
BufferBody(method, body) ==
  IF HasBody(method) THEN [nil |-> FALSE, bytes |-> body] ELSE NoBytes

RestoreBody_Never(bodyBytes, rbody) == rbody

\* r.Body as fn hands it to the forward: a fresh reader over bodyBytes, or
\* what is left of the request's own body when nothing was buffered.
RestoreBody(bodyBytes, rbody) ==
  IF ~bodyBytes.nil THEN bodyBytes.bytes ELSE rbody

(***************************************************************************)
(* The backend list of a service (config.parseBackendsEnv).  An entry of   *)
(* the comma-separated list is a sequence of tokens: ":" is the colon, "8" *)
(* and "2" are digits, "http" and "//host" stand for text without colon    *)
(* and digit.                                                              *)
(***************************************************************************)
Colon == ":"

Digit == [ d \in {"8", "2"} |-> IF d = "8" THEN 8 ELSE 2 ]

Tokens == {"http", Colon, "//host"} \cup DOMAIN Digit

\* strings.LastIndex(part, ":"), as a position of the sequence (0: none).
RECURSIVE LastIndex(_)
LastIndex(part) ==
  IF part = << >> THEN 0
  ELSE IF part[Len(part)] = Colon THEN Len(part)
  ELSE LastIndex(SubSeq(part, 1, Len(part) - 1))

\* strings.Count(s, ":").
RECURSIVE Count(_)
Count(s) ==
  IF s = << >> THEN 0
  ELSE Count(Tail(s)) + (IF Head(s) = Colon THEN 1 ELSE 0)

\* strconv.Atoi: ok for a non-empty run of digits, with its decimal value.
RECURSIVE Atoi(_)
Atoi(s) ==
  IF s = << >> THEN [ok |-> FALSE, n |-> 0]
  ELSE LET last == s[Len(s)]
           init == SubSeq(s, 1, Len(s) - 1)
       IN  IF last \notin DOMAIN Digit THEN [ok |-> FALSE, n |-> 0]
           ELSE IF init = << >> THEN [ok |-> TRUE, n |-> Digit[last]]
           ELSE LET r == Atoi(init)
                IN  [ok |-> r.ok,
                     n |-> IF r.ok THEN r.n * 10 + Digit[last] ELSE 0]

\* The BackendConfig parseBackendsEnv makes of one non-empty entry: the
\* number after the last colon is the weight if a colon precedes it.
ParseBackend(part) ==
  LET idx == LastIndex(part)
      suffix == SubSeq(part, idx + 1, Len(part))
      potentialURL == SubSeq(part, 1, idx - 1)
      weight == Atoi(suffix)
  IN  IF idx > 1 /\ weight.ok /\ Count(potentialURL) >= 1
      THEN [URL |-> potentialURL, Weight |-> weight.n]
      ELSE [URL |-> part, Weight |-> 1]

(***************************************************************************)
(* State.                                                                  *)
(***************************************************************************)
VARIABLES
  cb,     \* the service's circuit breaker
  now,    \* the clock (time.Now)
  lb,     \* the service's load balancer
  req,    \* per request slot: where proxyWithRetry stands, and its locals
  call,   \* per caller of SpecCB: "idle", or "admitted" by AllowRequest
  probe,  \* history: requests admitted in this half-open phase, in flight
  hist,   \* history: counts of the calls made on the breaker
  ev,     \* the last call made on the breaker or response written
  strategy, \* SpecLB: the strategy the load balancer was built with
  scan,   \* SpecLB: per caller of Select, the loop iterations it has made
  picks,  \* history: the last results of Select while every backend is healthy
  lbev,   \* history: the last return of Select
  ex,     \* SpecRetry: one call of Retryer.Execute
  dl,     \* SpecDelay: one call of Retryer.GetDelay
  rl,     \* SpecRL: the rate limiter, its KV store and its callers
  hc,     \* SpecHC: the health checker
  reg,    \* SpecReg: the breaker registry and the callers of Get
  env,    \* the backends' answers and the clients' requests
  pb      \* SpecParse: one entry of a backend list and what is made of it

vars == <<cb, now, lb, req, call, probe, hist, ev, strategy, scan, picks, lbev,
          ex, dl, rl, hc, reg, env, pb>>

\* The variables of the load balancer's callers, and all the others but lb.
lbVars == <<strategy, scan, picks, lbev>>
gwVars == <<cb, now, req, call, probe, hist, ev>>

\* A request slot with no request in it.  recs (history) counts the
\* RecordSuccess and RecordFailure calls of the slot's request; an idle slot
\* keeps the count of the request that ended, until the next one starts.
\* answers (history) holds the statuses the backends answered the request's
\* attempts with.
\* method and body are the request's; rbody is what is left to read of
\* r.Body and bodyBytes the buffer of proxyWithRetry; sent and consumed
\* (history) hold, per attempt, the body the forward was handed and how
\* many bytes of it the forward read.
IdleReq ==
  [ pc |-> "idle", sel |-> 0, backend |-> Nil, attempt |-> 0,
    result |-> NewResult, recs |-> 0, answers |-> << >>,
    method |-> "GET", body |-> << >>, rbody |-> << >>, bodyBytes |-> NoBytes,
    sent |-> << >>, consumed |-> << >> ]

\* A header the response does not carry.
NoHeader == -1

\* ev: op is the call made on the breaker ("allow", "record", "reset") or
\* the early response ("select"); id the request; ok the call's result
\* (AllowRequest's answer, or whether a success was recorded); http the
\* status written to the client (0: none); pre the breaker and lb the load
\* balancer before the call; result what Execute returned to the request;
\* answers the statuses the backends answered it with; retryCount the
\* X-Retry-Count and xBackend the X-Backend header of the response.  For
\* the re-selection of a retry ("reselect"): picked what Select returned
\* and prev the backend selected before.
NoEv ==
  [ op |-> "none", id |-> 0, ok |-> FALSE, http |-> 0, pre |-> NewBreaker,
    lb |-> NewLoadBalancer, result |-> NewResult, answers |-> << >>,
    retryCount |-> NoHeader, picked |-> Nil, prev |-> Nil,
    xBackend |-> NoHeader ]

Event(op, id, ok, http, result) ==
  [ op |-> op, id |-> id, ok |-> ok, http |-> http, pre |-> cb, lb |-> lb,
    result |-> result, answers |-> << >>, retryCount |-> NoHeader,
    picked |-> Nil, prev |-> Nil, xBackend |-> NoHeader ]

\* hist.consecFails: RecordFailure calls since the last RecordSuccess, Reset
\* or half-open close (counted up to MaxFailures).  In a half-open phase:
\* phaseAdmits, the AllowRequest calls admitted, the transition included;
\* phaseSucc, the RecordSuccess calls; phaseClean, no outcome recorded yet.
\* The phase counts are cleared when the breaker leaves half-open.
NewHist ==
  [ consecFails |-> 0, phaseAdmits |-> 0, phaseSucc |-> 0, phaseClean |-> FALSE ]

NoPhase(h) == [h EXCEPT !.phaseAdmits = 0, !.phaseSucc = 0, !.phaseClean = FALSE]

HistAllow(h, c, c2, ok) ==
  IF c.state = StateOpen /\ c2.state = StateHalfOpen
  THEN [h EXCEPT !.phaseAdmits = 1, !.phaseSucc = 0, !.phaseClean = TRUE]
  ELSE IF c.state = StateHalfOpen /\ ok
       THEN [h EXCEPT !.phaseAdmits = @ + 1]
       ELSE h

HistRecord(h, c, c2, success) ==
  LET h1 == [h EXCEPT !.consecFails =
                        IF success THEN 0
                        ELSE IF @ < config.MaxFailures THEN @ + 1 ELSE @]
  IN  IF c.state # StateHalfOpen THEN h1
      ELSE IF c2.state # StateHalfOpen THEN NoPhase(h1)
      ELSE [h1 EXCEPT !.phaseSucc = IF success THEN @ + 1 ELSE @,
                      !.phaseClean = FALSE]

HistReset(h) == NoPhase([h EXCEPT !.consecFails = 0])

ProbeAllow(p, id, c, c2, ok) ==
  IF ok /\ c2.state = StateHalfOpen THEN p \cup {id} ELSE p

ProbeRecord(p, id, c2) ==
  IF c2.state # StateHalfOpen THEN {} ELSE p \ {id}

(***************************************************************************)
(* Proxy orchestrator (package proxy): ReverseProxy.proxyWithRetry, one    *)
(* action per access to the breaker, the load balancer or a backend.       *)
(***************************************************************************)
\* Variant: a denied request is answered 503 but goes on to the selection.
Admit_DeniedProceeds(r) ==
  /\ req[r].pc = "idle"
  /\ LET a == AllowRequest(cb, now)
     IN  /\ cb' = a.cb
         /\ hist' = HistAllow(hist, cb, a.cb, a.ok)
         /\ probe' = ProbeAllow(probe, r, cb, a.cb, a.ok)
         /\ req' = [req EXCEPT ![r] = [IdleReq EXCEPT !.pc = "select"]]
         /\ ev' = Event("allow", r, a.ok, IF a.ok THEN 0 ELSE 503, NewResult)
  /\ UNCHANGED <<now, lb, call, lbVars, ex, dl, rl, hc, reg, env, pb>>

\* cb.AllowRequest(); a denial is answered 503 "Circuit breaker is open".
Admit(r) ==
  /\ req[r].pc = "idle"
  /\ LET a == AllowRequest(cb, now)
     IN  /\ cb' = a.cb
         /\ hist' = HistAllow(hist, cb, a.cb, a.ok)
         /\ probe' = ProbeAllow(probe, r, cb, a.cb, a.ok)
         /\ IF a.ok
            THEN /\ req' = [req EXCEPT ![r] = [IdleReq EXCEPT !.pc = "select"]]
                 /\ ev' = Event("allow", r, TRUE, 0, NewResult)
            ELSE /\ req' = [req EXCEPT ![r] = IdleReq]
                 /\ ev' = Event("allow", r, FALSE, 503, NewResult)
  /\ UNCHANGED <<now, lb, call, lbVars, ex, dl, rl, hc, reg, env, pb>>

\* svc.loadBalancer.Select(), an iteration at a time; none: 503 "No healthy
\* backends available".  Then the request body is buffered; a read failure
\* is answered 400.  Neither response records an outcome on the breaker.
\* (The 500 "Backend proxy not found" cannot happen: createServiceProxy
\* keys svc.proxies by the URL of every backend it hands the balancer.)
SelectBackend(r) ==
  /\ req[r].pc = "select"
  /\ LET s == SelectStep(lb, req[r].sel)
     IN  /\ lb' = s.lb
         /\ IF ~s.done
            THEN /\ req' = [req EXCEPT ![r].sel = s.i]
                 /\ ev' = NoEv
                 /\ probe' = probe
            ELSE IF s.backend = Nil
                 THEN /\ req' = [req EXCEPT ![r] = IdleReq]
                      /\ ev' = Event("select", r, FALSE, 503, NewResult)
                      /\ probe' = probe \ {r}
                 ELSE \E m \in env.methods, B \in env.bodies,
                         bodyOk \in BOOLEAN :
                        IF bodyOk \/ ~HasBody(m)
                        THEN /\ req' = [req EXCEPT ![r] =
                                          [IdleReq EXCEPT
                                             !.pc = "retry",
                                             !.backend = s.backend,
                                             !.method = m,
                                             !.body = B,
                                             !.rbody = IF HasBody(m) THEN << >>
                                                       ELSE B,
                                             !.bodyBytes = BufferBody(m, B)]]
                             /\ ev' = NoEv
                             /\ probe' = probe
                        ELSE /\ req' = [req EXCEPT ![r] = IdleReq]
                             /\ ev' = Event("select", r, FALSE, 400, NewResult)
                             /\ probe' = probe \ {r}
  /\ UNCHANGED <<cb, now, call, hist, lbVars, ex, dl, rl, hc, reg, env, pb>>

\* The body is restored from the buffer; then the forward of one attempt
\* (proxy.ServeHTTP into the recorder) reads k bytes of r.Body and answers
\* status; then the rest of the loop iteration of Execute.
Forwarded(r, q, status, k) ==
  LET a == ExecAfterFn(retryer, q.result, q.attempt - 1, status, ErrNil)
      handed == RestoreBody(q.bodyBytes, q.rbody)
  IN  req' = [req EXCEPT ![r] =
                [q EXCEPT !.result = a.result, !.sel = 0,
                          !.answers = Append(@, status),
                          !.sent = Append(@, handed),
                          !.consumed = Append(@, k),
                          !.rbody = SubSeq(handed, k + 1, Len(handed)),
                          !.pc = IF a.done THEN "record" ELSE "retry"]]

\* What a forward of q to its backend may answer and read.
Forwards(r, q) ==
  \E status \in env.answers[q.backend],
     k \in 0..Len(RestoreBody(q.bodyBytes, q.rbody)) :
    Forwarded(r, q, status, k)

\* One iteration of the loop of retryer.Execute up to fn's re-selection:
\* the context check, the backoff, attempt++.  The first attempt forwards
\* to the backend selected before the loop.
Attempt(r) ==
  /\ req[r].pc = "retry"
  /\ \E cancel \in {"no", "before", "sleep"} :
       LET b == ExecBegin(req[r].result, req[r].attempt, cancel)
           q == [req[r] EXCEPT !.result = b.result]
       IN  IF b.done
           THEN req' = [req EXCEPT ![r] = [q EXCEPT !.pc = "record"]]
           ELSE LET q2 == [q EXCEPT !.attempt = @ + 1]
                IN  IF q2.attempt > 1
                    THEN req' = [req EXCEPT ![r] = [q2 EXCEPT !.pc = "reselect"]]
                    ELSE Forwards(r, q2)
  /\ ev' = NoEv
  /\ UNCHANGED <<cb, now, lb, call, probe, hist, lbVars, ex, dl, rl, hc, reg, env, pb>>

\* Variant: a retry stays with the backend selected before the loop.
Reselected_KeepsFirst(selectedBackend, newBackend) == selectedBackend

\* selectedBackend after the re-selection of a retry returned newBackend.
Reselected(selectedBackend, newBackend) ==
  IF newBackend # Nil THEN newBackend ELSE selectedBackend

\* On a retry fn selects again, an iteration at a time, keeps the previous
\* backend if Select returns none, and forwards.
Reselect(r) ==
  /\ req[r].pc = "reselect"
  /\ LET s == SelectStep(lb, req[r].sel)
     IN  /\ lb' = s.lb
         /\ IF ~s.done
            THEN /\ req' = [req EXCEPT ![r].sel = s.i]
                 /\ ev' = NoEv
            ELSE LET q == [req[r] EXCEPT !.backend =
                             Reselected(@, s.backend)]
                 IN  /\ Forwards(r, q)
                     /\ ev' = [Event("reselect", r, s.backend # Nil, 0,
                                     NewResult)
                                 EXCEPT !.picked = s.backend,
                                        !.prev = req[r].backend]
  /\ UNCHANGED <<cb, now, call, probe, hist, lbVars, ex, dl, rl, hc, reg, env, pb>>

\* Variant: a request counts as failed if any of its attempts was retried.
RecordsFailure_AnyAttempt(result) == result.StatusCode >= 500 \/ result.Retried

\* Variant: the 502 of the forwarder's error hook is not counted.
RecordsFailure_NotTransport(result) ==
  result.StatusCode >= 500 /\ result.StatusCode # 502

\* The breaker's view of the result of Execute.
RecordsFailure(result) == result.StatusCode >= 500

\* Variant: the header carries the number of attempts.
RetryCountHeader_Attempts(attempt, result) ==
  IF attempt > 0 /\ result.Retried THEN result.Attempts ELSE NoHeader

\* The X-Retry-Count header of the response: written with the recorded
\* response (there is one once fn has run) if result.Retried.
RetryCountHeader(attempt, result) ==
  IF attempt > 0 /\ result.Retried THEN result.Attempts - 1 ELSE NoHeader

\* The X-Backend header of the response: written with the recorded
\* response (there is one once fn has run), it names selectedBackend, the
\* backends of a service being told apart by their position in its list.
XBackendHeader(attempt, backend) ==
  IF attempt > 0 THEN backend ELSE NoHeader

\* After the loop: RecordFailure if the final status is >= 500, else
\* RecordSuccess; then the recorded response is written, if there is one.
Record(r) ==
  /\ req[r].pc = "record"
  /\ LET success == ~RecordsFailure(req[r].result)
         c2 == IF success THEN RecordSuccess(cb, now) ELSE RecordFailure(cb, now)
     IN  /\ cb' = c2
         /\ hist' = HistRecord(hist, cb, c2, success)
         /\ probe' = ProbeRecord(probe, r, c2)
         /\ ev' = [Event("record", r, success,
                         IF req[r].attempt > 0 THEN req[r].result.StatusCode
                         ELSE 0,
                         req[r].result)
                     EXCEPT !.answers = req[r].answers,
                            !.retryCount =
                              RetryCountHeader(req[r].attempt, req[r].result),
                            !.xBackend =
                              XBackendHeader(req[r].attempt, req[r].backend)]
  /\ req' = [req EXCEPT ![r] = [IdleReq EXCEPT !.recs = req[r].recs + 1]]
  /\ UNCHANGED <<now, lb, call, lbVars, ex, dl, rl, hc, reg, env, pb>>

\* The admin handler ResetCircuitBreaker: Registry.ResetByName, cb.Reset().
\* (Before the first request the registry holds no breaker and nothing is
\* reset; the breaker it then creates is the closed one Reset would leave.)
AdminReset ==
  /\ cb' = Reset(cb)
  /\ hist' = HistReset(hist)
  /\ probe' = {}
  /\ ev' = Event("reset", 0, TRUE, 0, NewResult)
  /\ UNCHANGED <<now, lb, req, call, lbVars, ex, dl, rl, hc, reg, env, pb>>

\* The health checker's callback: LoadBalancer.SetHealthy under the write
\* lock, which no Select in progress (holding the read lock) allows.
UpdateBackendHealth(b, h) ==
  /\ \A r \in Reqs : req[r].sel = 0
  /\ lb.healthy[b] # h
  /\ lb' = SetHealthy(lb, b, h)
  /\ ev' = NoEv
  /\ UNCHANGED <<cb, now, req, call, probe, hist, lbVars, ex, dl, rl, hc, reg, env, pb>>

\* Time passes.
Tick ==
  /\ now < MaxTime
  /\ now' = now + 1
  /\ ev' = NoEv
  /\ UNCHANGED <<cb, lb, req, call, probe, hist, lbVars, ex, dl, rl, hc, reg, env, pb>>

\* lbev: the caller whose Select returned last, the backend returned, and
\* adds, the atomic adds that call made on the counter.
NoSelect == [ op |-> "none", id |-> 0, backend |-> Nil, adds |-> 0 ]

\* ex: rt the retryer; pc where Execute stands ("begin": at the top of a
\* loop iteration, "fn": about to call fn, "done": returned); attempt the
\* loop index; result the Result; ctxDone whether the context is
\* cancelled.  History: calls, the invocations of fn; op the last step and
\* saw whether it found the context cancelled; last what fn returned last;
\* allRetry whether every call of fn returned a retryable status and no
\* error.
NoExec ==
  [ rt |-> retryer, pc |-> "idle", attempt |-> 0, result |-> NewResult,
    ctxDone |-> FALSE, calls |-> 0, op |-> "none", saw |-> FALSE,
    last |-> [status |-> 0, err |-> ErrNil], allRetry |-> TRUE ]

\* dl: the configuration handed to retry.New, the argument of GetDelay, the
\* random draw, and (once done) the delay returned.
NoDelay ==
  [ cfg |-> RetryConfig(0), attempt |-> 0, rnd |-> Rat(0, 1),
    out |-> Duration(0, 0),
    done |-> FALSE ]

\* rl: limiter the RateLimiter of main; keyLimit the RateLimit field of the
\* caller's API key (0: none, or no API key); kv the bucket in the KV
\* store; clock the time; call, per caller of AllowWithBurst, its position
\* ("idle", "read": now taken, before the first pipeline, or "write":
\* between the two pipelines) and locals.  History: ticks and started count
\* the advances of the clock and the calls begun, done and admitted the
\* calls returned and those handed on, first the time of the first call,
\* overlap whether a call began while another was in progress, failed
\* whether the store failed a pipeline, ev the last step.
IdleCall ==
  [ pc |-> "idle", now |-> 0, tokens |-> 0, allowed |-> FALSE, seen |-> 0,
    failed |-> FALSE ]

NoAllow ==
  [ op |-> "none", id |-> 0, now |-> 0, seen |-> 0, failed |-> FALSE,
    result |-> AllowResult(NewRateLimiter(RequestsPerMinute, WindowSeconds),
                           FALSE, 0),
    resp |-> [status |-> 0, next |-> FALSE] ]

NoLimiter ==
  [ limiter |-> NewRateLimiter(RequestsPerMinute, WindowSeconds),
    keyLimit |-> 0, kv |-> NoBucket, clock |-> 0,
    call |-> [c \in Limited |-> IdleCall],
    ticks |-> 0, started |-> 0, done |-> 0, admitted |-> 0, first |-> 0,
    overlap |-> FALSE, failed |-> FALSE, ev |-> NoAllow ]

\* hc: c the Checker; pc where Start stands ("new": not yet run, "round":
\* in checkAll, "select": at the select of the loop, "exited": returned);
\* pending the instances whose probe of this round has not finished;
\* answers, for those of them whose request has returned and whose status
\* is not yet recorded, the instance with the status to record;
\* notifying those among them whose updateInstanceHealth has recorded a
\* changed status and released c.mu but not yet notified the callbacks;
\* copies, for those of them whose notifyCallbacks has copied the list of
\* callbacks, the instance with the copy;
\* stopped and ctxDone whether stopCh is closed and the context done.
\* History: completed whether a round has completed; delivered, per
\* instance, the status the last call of a registered callback reported for
\* it (unknown: none was called); unreported, per instance, whether its
\* last change of status found no callback registered.
NoChecker ==
  [ c |-> NewChecker([s \in Services |-> 1], MainCallbacks),
    pc |-> "new", pending |-> {}, answers |-> {}, notifying |-> {},
    copies |-> {},
    stopped |-> FALSE, ctxDone |-> FALSE,
    completed |-> FALSE,
    delivered |-> [s \in Services |-> [b \in 0..0 |-> StatusUnknown]],
    unreported |-> [s \in Services |-> [b \in 0..0 |-> FALSE]] ]

\* pb: part an entry of a backend list; done whether it has been parsed
\* and out the BackendConfig made of it.
NoParse == [ part |-> << >>, done |-> FALSE, out |-> [URL |-> << >>, Weight |-> 0] ]

\* reg: r the Registry; call, per caller of Get, the name it waits to lock
\* the registry for ("" when it is not in Get).  History: created the
\* breakers made per name, returned the breakers Get returned per name,
\* raced whether a double check found a breaker made meanwhile.
NoRegistry ==
  [ r |-> NewRegistry, call |-> [c \in Callers |-> ""],
    created |-> [n \in Services |-> 0], returned |-> [n \in Services |-> {}],
    raced |-> FALSE ]

\* env: answers, per backend, the statuses it may answer a forward with
\* (or the forwarder's error hook for it); methods and bodies, the methods
\* and bodies of the requests the clients send.  AnyEnv: every backend may
\* answer anything and the requests are POSTs with an empty body (the
\* buffering of the body runs, and can fail); SpecBody draws the methods
\* and the bodies.
AnyEnv ==
  [ answers |-> [b \in Backends |-> Statuses],
    methods |-> {"POST"},
    bodies  |-> {<< >>} ]

\* The gateway before its first request, without its load balancer.
InitGateway ==
  /\ cb = NewBreaker
  /\ now = 0
  /\ req = [r \in Reqs |-> IdleReq]
  /\ call = [c \in Callers |-> "idle"]
  /\ probe = {}
  /\ hist = NewHist
  /\ ev = NoEv

InitSelectors ==
  /\ scan = [c \in Selectors |-> 0]
  /\ picks = << >>
  /\ lbev = NoSelect

Init ==
  /\ InitGateway
  /\ lb = NewLoadBalancer
  /\ strategy = "round-robin"
  /\ InitSelectors
  /\ ex = NoExec
  /\ dl = NoDelay
  /\ rl = NoLimiter
  /\ hc = NoChecker
  /\ reg = NoRegistry
  /\ env = AnyEnv
  /\ pb = NoParse

Next ==
  \/ \E r \in Reqs : Admit(r)
  \/ \E r \in Reqs : SelectBackend(r)
  \/ \E r \in Reqs : Attempt(r)
  \/ \E r \in Reqs : Reselect(r)
  \/ \E r \in Reqs : Record(r)
  \/ AdminReset
  \/ \E b \in Backends, h \in BOOLEAN : UpdateBackendHealth(b, h)
  \/ Tick

Spec == Init /\ [][Next]_vars

\* The gateway serving one request at a time (the first slot only).
NextSerial ==
  \/ Admit(1)
  \/ SelectBackend(1)
  \/ Attempt(1)
  \/ Reselect(1)
  \/ Record(1)
  \/ AdminReset
  \/ \E b \in Backends, h \in BOOLEAN : UpdateBackendHealth(b, h)
  \/ Tick

SpecSerial == Init /\ [][NextSerial]_vars

\* The gateway serving one request after another for ever, without admin
\* reset: every step of a request in progress is eventually taken, a new
\* request arrives whenever the slot is idle, and time advances (up to the
\* horizon MaxTime); the health flags change as they may.
NextArriving ==
  \/ Admit(1)
  \/ SelectBackend(1)
  \/ Attempt(1)
  \/ Reselect(1)
  \/ Record(1)
  \/ \E b \in Backends, h \in BOOLEAN : UpdateBackendHealth(b, h)
  \/ Tick

SpecArriving ==
  /\ Init /\ [][NextArriving]_vars
  /\ WF_vars(Admit(1))
  /\ WF_vars(SelectBackend(1))
  /\ WF_vars(Attempt(1))
  /\ WF_vars(Reselect(1))
  /\ WF_vars(Record(1))
  /\ WF_vars(Tick)

\* A service whose last backend answers every forward with 502 (its
\* forwarder's error hook: the backend is down) while the others answer
\* 200, every backend staying flagged healthy; requests arrive one after
\* another or concurrently.
BadBackend == NumBackends - 1

OneBadEnv ==
  [ answers |-> [b \in Backends |-> IF b = BadBackend THEN {502} ELSE {200}],
    methods |-> {"GET"},
    bodies  |-> {<< >>} ]

InitOneBad ==
  /\ InitGateway
  /\ lb = NewLoadBalancer
  /\ strategy = "round-robin"
  /\ InitSelectors
  /\ ex = NoExec
  /\ dl = NoDelay
  /\ rl = NoLimiter
  /\ hc = NoChecker
  /\ reg = NoRegistry
  /\ env = OneBadEnv
  /\ pb = NoParse

NextOneBad ==
  \/ \E r \in Reqs : Admit(r)
  \/ \E r \in Reqs : SelectBackend(r)
  \/ \E r \in Reqs : Attempt(r)
  \/ \E r \in Reqs : Reselect(r)
  \/ \E r \in Reqs : Record(r)
  \/ Tick

SpecOneBad == InitOneBad /\ [][NextOneBad]_vars

\* The same service serving one request at a time.
NextOneBadSerial ==
  \/ Admit(1)
  \/ SelectBackend(1)
  \/ Attempt(1)
  \/ Reselect(1)
  \/ Record(1)
  \/ Tick

SpecOneBadSerial == InitOneBad /\ [][NextOneBadSerial]_vars

\* A service each of whose backends answers every forward with a status of
\* its own, the first ones retryable (502, 503, 504), so that the answers a
\* request got tell the backends it was forwarded to; the health checker's
\* callback changes the flags while requests are served, one at a time.
StatusOf(b) == 502 + b

BackendOf(status) == status - 502

TaggedEnv ==
  [ answers |-> [b \in Backends |-> {StatusOf(b)}],
    methods |-> {"GET"},
    bodies  |-> {<< >>} ]

InitTagged ==
  /\ InitGateway
  /\ lb = NewLoadBalancer
  /\ strategy = "round-robin"
  /\ InitSelectors
  /\ ex = NoExec
  /\ dl = NoDelay
  /\ rl = NoLimiter
  /\ hc = NoChecker
  /\ reg = NoRegistry
  /\ env = TaggedEnv
  /\ pb = NoParse

NextTagged ==
  \/ Admit(1)
  \/ SelectBackend(1)
  \/ Attempt(1)
  \/ Reselect(1)
  \/ Record(1)
  \/ \E b \in Backends, h \in BOOLEAN : UpdateBackendHealth(b, h)
  \/ Tick

SpecTagged == InitTagged /\ [][NextTagged]_vars

\* The gateway serving, one at a time, requests of any method and body.
Bodies == {<< >>, <<7>>, <<7, 9>>}

BodyEnv ==
  [ answers |-> [b \in Backends |-> Statuses],
    methods |-> {"GET", "HEAD", "POST"},
    bodies  |-> Bodies ]

InitBody ==
  /\ InitGateway
  /\ lb = NewLoadBalancer
  /\ strategy = "round-robin"
  /\ InitSelectors
  /\ ex = NoExec
  /\ dl = NoDelay
  /\ rl = NoLimiter
  /\ hc = NoChecker
  /\ reg = NoRegistry
  /\ env = BodyEnv
  /\ pb = NoParse

NextBody ==
  \/ Admit(1)
  \/ SelectBackend(1)
  \/ Attempt(1)
  \/ Reselect(1)
  \/ Record(1)

SpecBody == InitBody /\ [][NextBody]_vars

(***************************************************************************)
(* The breaker as its callers drive it.  Each caller follows the calls of  *)
(* proxyWithRetry: AllowRequest; if admitted, later RecordSuccess or       *)
(* RecordFailure, or a return without either (no healthy backend, body     *)
(* read failure).                                                          *)
(***************************************************************************)
CallAllow(c) ==
  /\ call[c] = "idle"
  /\ LET a == AllowRequest(cb, now)
     IN  /\ cb' = a.cb
         /\ hist' = HistAllow(hist, cb, a.cb, a.ok)
         /\ probe' = ProbeAllow(probe, c, cb, a.cb, a.ok)
         /\ call' = [call EXCEPT ![c] = IF a.ok THEN "admitted" ELSE "idle"]
         /\ ev' = Event("allow", c, a.ok, IF a.ok THEN 0 ELSE 503, NewResult)
  /\ UNCHANGED <<now, lb, req, lbVars, ex, dl, rl, hc, reg, env, pb>>

CallRecord(c, success) ==
  /\ call[c] = "admitted"
  /\ LET c2 == IF success THEN RecordSuccess(cb, now) ELSE RecordFailure(cb, now)
     IN  /\ cb' = c2
         /\ hist' = HistRecord(hist, cb, c2, success)
         /\ probe' = ProbeRecord(probe, c, c2)
         /\ ev' = Event("record", c, success, 0, NewResult)
  /\ call' = [call EXCEPT ![c] = "idle"]
  /\ UNCHANGED <<now, lb, req, lbVars, ex, dl, rl, hc, reg, env, pb>>

CallReturn(c) ==
  /\ call[c] = "admitted"
  /\ call' = [call EXCEPT ![c] = "idle"]
  /\ probe' = probe \ {c}
  /\ ev' = NoEv
  /\ UNCHANGED <<cb, now, lb, req, hist, lbVars, ex, dl, rl, hc, reg, env, pb>>

NextCB ==
  \/ \E c \in Callers : CallAllow(c)
  \/ \E c \in Callers, success \in BOOLEAN : CallRecord(c, success)
  \/ \E c \in Callers : CallReturn(c)
  \/ AdminReset
  \/ Tick

SpecCB == Init /\ [][NextCB]_vars

(***************************************************************************)
(* The load balancer as concurrent callers drive it: a list of up to       *)
(* NumBackends backends under either strategy, Select called by            *)
(* NumSelectors callers at a time, and SetHealthy.                         *)
(***************************************************************************)
\* picks with one more result, at most the last MaxWindow being kept.
Remember(p, b) ==
  LET q == Append(p, b) IN IF Len(q) > MaxWindow THEN Tail(q) ELSE q

\* Select of caller c returns b, having made adds atomic adds.
SelectReturns(c, b, adds) ==
  /\ lbev' = [op |-> "select", id |-> c, backend |-> b, adds |-> adds]
  /\ picks' = IF NumOf(lb) > 0 /\ HealthyCount(lb) = NumOf(lb)
              THEN Remember(picks, b) ELSE << >>

\* LoadBalancer.Select under the read lock: RandomSelector.Select reads the
\* flags only; RoundRobinSelector.Select advances the shared counter once
\* per loop iteration, the callers' iterations interleaving.
LBSelect(c) ==
  /\ IF strategy = "random"
     THEN /\ \E b \in RandomSelect(lb) : SelectReturns(c, b, 0)
          /\ UNCHANGED <<lb, scan>>
     ELSE LET s == SelectStep(lb, scan[c])
          IN  /\ lb' = s.lb
              /\ scan' = [scan EXCEPT ![c] = s.i]
              /\ IF s.done THEN SelectReturns(c, s.backend, Adds(lb, scan[c]))
                 ELSE lbev' = NoSelect /\ picks' = picks
  /\ UNCHANGED <<gwVars, strategy, ex, dl, rl, hc, reg, env, pb>>

\* LoadBalancer.SetHealthy under the write lock, which waits for every
\* Select in progress to return.
LBSetHealthy(b, h) ==
  /\ \A c \in Selectors : scan[c] = 0
  /\ b \in DOMAIN lb.healthy
  /\ lb.healthy[b] # h
  /\ lb' = SetHealthy(lb, b, h)
  /\ picks' = << >>
  /\ lbev' = NoSelect
  /\ UNCHANGED <<gwVars, strategy, scan, ex, dl, rl, hc, reg, env, pb>>

InitLB ==
  /\ InitGateway
  /\ \E n \in 0..NumBackends : lb = NewSelector(n)
  /\ strategy \in Strategies
  /\ InitSelectors
  /\ ex = NoExec
  /\ dl = NoDelay
  /\ rl = NoLimiter
  /\ hc = NoChecker
  /\ reg = NoRegistry
  /\ env = AnyEnv
  /\ pb = NoParse

NextLB ==
  \/ \E c \in Selectors : LBSelect(c)
  \/ \E b \in Backends, h \in BOOLEAN : LBSetHealthy(b, h)

SpecLB == InitLB /\ [][NextLB]_vars

(***************************************************************************)
(* The retry engine alone: one call of Retryer.Execute, for a retryer of   *)
(* up to TopMaxRetries retries, a context that may be cancelled at any     *)
(* moment and an fn that may return anything.                              *)
(***************************************************************************)
\* What fn may return: a status and no error, or an error (transient, not
\* transient, or the context's).
FnReturns ==
  {[status |-> st, err |-> ErrNil] : st \in {200, 404, 500, 502, 503, 504}}
    \cup {[status |-> 0, err |-> e] :
            e \in {"connection refused", "EOF", "permanent error", ErrContext}}

\* The top of a loop iteration: ctx.Err() is checked; on a retry the select
\* waits for the delay or for ctx.Done(), whichever comes first.
ExBegin ==
  /\ ex.pc = "begin"
  /\ \E cancel \in IF ex.ctxDone THEN {"before"}
                    ELSE IF ex.attempt > 0 THEN {"no", "sleep"} ELSE {"no"} :
       LET b == ExecBegin(ex.result, ex.attempt, cancel)
       IN  ex' = [ex EXCEPT !.result = b.result,
                            !.pc = IF b.done THEN "done" ELSE "fn",
                            !.ctxDone = @ \/ cancel = "sleep",
                            !.op = "begin",
                            !.saw = (cancel # "no")]
  /\ UNCHANGED <<gwVars, lb, lbVars, dl, rl, hc, reg, env, pb>>

\* fn is called and returns ret; the rest of the loop iteration.
ExFn(ret) ==
  /\ ex.pc = "fn"
  /\ LET a == ExecAfterFn(ex.rt, ex.result, ex.attempt, ret.status, ret.err)
     IN  ex' = [ex EXCEPT !.result = a.result,
                          !.pc = IF a.done THEN "done" ELSE "begin",
                          !.attempt = IF a.done THEN @ ELSE @ + 1,
                          !.calls = @ + 1,
                          !.op = "fn",
                          !.saw = FALSE,
                          !.last = ret,
                          !.allRetry = @ /\ ret.err = ErrNil
                                         /\ ShouldRetry(ex.rt, ret.status)]
  /\ UNCHANGED <<gwVars, lb, lbVars, dl, rl, hc, reg, env, pb>>

\* The context is cancelled (by the client, or its deadline passes).
ExCancel ==
  /\ ex.pc \in {"begin", "fn"}
  /\ ~ex.ctxDone
  /\ ex' = [ex EXCEPT !.ctxDone = TRUE, !.op = "cancel", !.saw = FALSE]
  /\ UNCHANGED <<gwVars, lb, lbVars, dl, rl, hc, reg, env, pb>>

InitRetry ==
  /\ InitGateway
  /\ lb = NewLoadBalancer
  /\ strategy = "round-robin"
  /\ InitSelectors
  /\ \E m \in (-1)..TopMaxRetries, codes \in {{}, {500, 503}}, c \in BOOLEAN :
       ex = [NoExec EXCEPT
               !.rt = NewRetryer([RetryConfig(m) EXCEPT
                                    !.RetryableStatusCodes = codes]),
               !.pc = "begin",
               !.ctxDone = c]
  /\ dl = NoDelay
  /\ rl = NoLimiter
  /\ hc = NoChecker
  /\ reg = NoRegistry
  /\ env = AnyEnv
  /\ pb = NoParse

NextRetry ==
  \/ ExBegin
  \/ \E ret \in FnReturns : ExFn(ret)
  \/ ExCancel

SpecRetry == InitRetry /\ [][NextRetry]_vars

\* fn returns and the timer of a backoff fires: a step that is possible is
\* eventually taken.
SpecRetryLive == SpecRetry /\ WF_vars(NextRetry)

(***************************************************************************)
(* The backoff delay alone: GetDelay of a retryer built by retry.New from  *)
(* any of the configurations below, for a retry index and a random draw.   *)
(***************************************************************************)
DelayConfigs ==
  [ MaxRetries   : {CfgMaxRetries},
    InitialDelay : {0, 3, 8, 20},
    MaxDelay     : {0, 10, 16},
    Multiplier   : {Rat(0, 1), Rat(1, 1), Rat(3, 2), Rat(2, 1)},
    JitterFactor : {Rat(-1, 4), Rat(0, 1), Rat(1, 4), Rat(1, 1), Rat(5, 4)},
    RetryableStatusCodes : {{}} ]

\* Values of rand.Float64().
Draws == {Rat(0, 1), Rat(1, 4), Rat(1, 2), Rat(3, 4)}

\* r.GetDelay(attempt - 1), as Execute calls it before attempt + 1.
DelayApply ==
  /\ ~dl.done
  /\ dl' = [dl EXCEPT !.out = GetDelay(NewRetryer(dl.cfg), dl.attempt, dl.rnd),
                      !.done = TRUE]
  /\ UNCHANGED <<gwVars, lb, lbVars, ex, rl, hc, reg, env, pb>>

InitDelay ==
  /\ InitGateway
  /\ lb = NewLoadBalancer
  /\ strategy = "round-robin"
  /\ InitSelectors
  /\ ex = NoExec
  /\ rl = NoLimiter
  /\ hc = NoChecker
  /\ reg = NoRegistry
  /\ env = AnyEnv
  /\ pb = NoParse
  /\ \E c \in DelayConfigs, i \in 0..TopRetryIndex, d \in Draws :
       dl = [NoDelay EXCEPT !.cfg = c, !.attempt = i, !.rnd = d]

NextDelay == DelayApply

SpecDelay == InitDelay /\ [][NextDelay]_vars

(***************************************************************************)
(* The rate limiter alone: concurrent requests of one client (one key of   *)
(* the KV store) pass the RateLimit middleware while the clock advances    *)
(* and the store comes and goes.  A call of AllowWithBurst is three steps: *)
(* time.Now, then one per pipeline; up tells whether the store answers     *)
(* that pipeline.                                                          *)
(***************************************************************************)
\* The RateLimit field of the API key the requests carry.
KeyLimits == {0, 120}

\* Advances of the clock between calls: 300 ns, a second less 400 ns, a
\* second.
Advances == {3, 9999996, 10000000}

\* AllowWithBurst begins: now := time.Now().
RLBegin(c) ==
  /\ rl.call[c].pc = "idle"
  /\ rl.started < MaxRLCalls
  /\ rl' = [rl EXCEPT
       !.call[c] = [IdleCall EXCEPT !.pc = "read", !.now = rl.clock],
       !.started = @ + 1,
       !.first = IF rl.started = 0 THEN rl.clock ELSE @,
       !.overlap = @ \/ \E d \in Limited \ {c} : rl.call[d].pc # "idle",
       !.ev = [NoAllow EXCEPT !.op = "begin", !.id = c, !.now = rl.clock]]
  /\ UNCHANGED <<gwVars, lb, lbVars, ex, dl, hc, reg, env, pb>>

\* AllowWithBurst from the first pipeline up to the second: the two Gets,
\* the refill over the time from the stored last update to the call's own
\* now (which is negative when a later call has written meanwhile), and
\* the decision.
RLRead(c, up) ==
  /\ rl.call[c].pc = "read"
  /\ LET t    == rl.call[c].now
         got  == ReadBucket(rl.kv, up, BurstSize, t)
         seen == Refill(rl.limiter, BurstSize, got.tokens, got.lastUpdate, t)
         took == Take(seen)
     IN  rl' = [rl EXCEPT
           !.call[c] = [pc |-> "write", now |-> t, tokens |-> took.tokens,
                        allowed |-> took.allowed, seen |-> seen,
                        failed |-> ~up],
           !.ev = [NoAllow EXCEPT !.op = "read", !.id = c, !.now = t,
                                  !.seen = seen]]
  /\ UNCHANGED <<gwVars, lb, lbVars, ex, dl, hc, reg, env, pb>>

\* The rest of AllowWithBurst (the two Sets, the Result) and of the
\* middleware (500, 429 or next).
RLWrite(c, up) ==
  /\ rl.call[c].pc = "write"
  /\ LET me     == rl.call[c]
         result == AllowResult(rl.limiter, me.allowed, me.tokens)
         resp   == RateLimit(result)
         failed == me.failed \/ ~up
     IN  rl' = [rl EXCEPT
           !.kv = WriteBucket(@, up, me.tokens, me.now),
           !.call[c] = IdleCall,
           !.done = @ + 1,
           !.admitted = IF resp.next THEN @ + 1 ELSE @,
           !.failed = @ \/ failed,
           !.ev = [op |-> "done", id |-> c, now |-> me.now, seen |-> me.seen,
                   failed |-> failed, result |-> result, resp |-> resp]]
  /\ UNCHANGED <<gwVars, lb, lbVars, ex, dl, hc, reg, env, pb>>

RLTick(d) ==
  /\ rl.ticks < MaxRLTicks
  /\ rl' = [rl EXCEPT !.clock = @ + d, !.ticks = @ + 1]
  /\ UNCHANGED <<gwVars, lb, lbVars, ex, dl, hc, reg, env, pb>>

InitRL ==
  /\ InitGateway
  /\ lb = NewLoadBalancer
  /\ strategy = "round-robin"
  /\ InitSelectors
  /\ ex = NoExec
  /\ dl = NoDelay
  /\ \E k \in KeyLimits : rl = [NoLimiter EXCEPT !.keyLimit = k]
  /\ hc = NoChecker
  /\ reg = NoRegistry
  /\ env = AnyEnv
  /\ pb = NoParse

NextRL ==
  \/ \E c \in Limited : RLBegin(c)
  \/ \E c \in Limited, up \in BOOLEAN : RLRead(c, up)
  \/ \E c \in Limited, up \in BOOLEAN : RLWrite(c, up)
  \/ \E d \in Advances : RLTick(d)

SpecRL == InitRL /\ [][NextRL]_vars

\* A burst: concurrent requests of one client while the store answers and
\* before the clock has advanced.
NextRLBurst ==
  \/ \E c \in Limited : RLBegin(c)
  \/ \E c \in Limited : RLRead(c, TRUE)
  \/ \E c \in Limited : RLWrite(c, TRUE)

SpecRLBurst == InitRL /\ [][NextRLBurst]_vars

(***************************************************************************)
(* The health checker as main runs it (go healthChecker.Start(ctx), Stop   *)
(* at shutdown), over services of 1 to NumBackends instances, with the     *)
(* callbacks of main or with the proxy's callback registered.              *)
(***************************************************************************)
\* checkAll begins: the initial check of Start, or the ticker case of its
\* select.  One probe per instance is started.
HCBeginRound ==
  /\ hc.pc \in {"new", "select"}
  /\ hc' = [hc EXCEPT
       !.pc = "round",
       !.pending = {p \in Services \X Backends :
                      p[2] \in DOMAIN hc.c.inst[p[1]]}]
  /\ UNCHANGED <<gwVars, lb, lbVars, ex, dl, rl, reg, env, pb>>

\* checkInstance for one instance, up to its call of updateInstanceHealth:
\* the request is made under the context as it is now, and its outcome
\* decides the status to record.
HCProbe(s, b, ok) ==
  /\ hc.pc = "round"
  /\ <<s, b>> \in hc.pending \ hc.notifying
  /\ \A t \in hc.answers : <<t[1], t[2]>> # <<s, b>>
  /\ hc' = [hc EXCEPT
       !.answers = @ \cup {<<s, b, ProbeStatus(ok, hc.ctxDone)>>}]
  /\ UNCHANGED <<gwVars, lb, lbVars, ex, dl, rl, reg, env, pb>>

\* updateInstanceHealth for one instance, up to the release of c.mu: the
\* status is recorded, whatever has become of the context; when it did
\* not change the goroutine of the probe is done.
HCRecord(s, b) ==
  /\ \E t \in hc.answers :
       /\ <<t[1], t[2]>> = <<s, b>>
       /\ LET status  == t[3]
              changed == statusChanged(hc.c.inst[s][b], status)
          IN  hc' = [hc EXCEPT
                !.c.inst[s][b] = status,
                !.answers = @ \ {t},
                !.pending = IF changed THEN @ ELSE @ \ {<<s, b>>},
                !.notifying = IF changed THEN @ \cup {<<s, b>>} ELSE @]
  /\ UNCHANGED <<gwVars, lb, lbVars, ex, dl, rl, reg, env, pb>>

\* notifyCallbacks begins, the status having changed: the list of
\* callbacks is copied under callbackMu.
HCCopy(s, b) ==
  /\ <<s, b>> \in hc.notifying
  /\ \A t \in hc.copies : <<t[1], t[2]>> # <<s, b>>
  /\ hc' = [hc EXCEPT !.copies = @ \cup {<<s, b, hc.c.callbacks>>}]
  /\ UNCHANGED <<gwVars, lb, lbVars, ex, dl, rl, reg, env, pb>>

\* The rest of notifyCallbacks and of updateInstanceHealth: the callbacks
\* of the copy are called with (serviceName, instanceURL, status ==
\* StatusHealthy), and the goroutine of the probe is done.
HCNotify(s, b) ==
  /\ <<s, b>> \in hc.notifying
  /\ \E t \in hc.copies :
       /\ <<t[1], t[2]>> = <<s, b>>
       /\ LET callbacks == t[3]
              healthy   == hc.c.inst[s][b] = StatusHealthy
          IN  /\ lb' = notifyCallbacks(callbacks, lb, s, b, healthy)
              /\ hc' = [hc EXCEPT
                    !.pending = @ \ {<<s, b>>},
                    !.notifying = @ \ {<<s, b>>},
                    !.copies = @ \ {t},
                    !.delivered[s][b] =
                      IF callbacks # {} THEN ReportedStatus(healthy) ELSE @,
                    !.unreported[s][b] = (callbacks = {})]
  /\ UNCHANGED <<gwVars, lbVars, ex, dl, rl, reg, env, pb>>

\* Checker.RegisterCallback, at any time: the proxy's callback is appended
\* to the list notifyCallbacks copies.
HCRegister ==
  /\ hc.c.callbacks # ProxyCallbacks
  /\ hc' = [hc EXCEPT !.c.callbacks = @ \cup ProxyCallbacks]
  /\ UNCHANGED <<gwVars, lb, lbVars, ex, dl, rl, reg, env, pb>>

\* wg.Wait has returned: updateAggregatedHealth, and back to the select.
HCAggregate ==
  /\ hc.pc = "round"
  /\ hc.pending = {}
  /\ hc' = [hc EXCEPT !.c = updateAggregatedHealth(@), !.pc = "select",
                      !.completed = TRUE]
  /\ UNCHANGED <<gwVars, lb, lbVars, ex, dl, rl, reg, env, pb>>

\* The select of Start takes the stopCh or the ctx.Done case.
HCReturn ==
  /\ hc.pc = "select"
  /\ LoopExits(hc.stopped, hc.ctxDone)
  /\ hc' = [hc EXCEPT !.pc = "exited"]
  /\ UNCHANGED <<gwVars, lb, lbVars, ex, dl, rl, reg, env, pb>>

\* Checker.Stop, which main calls once.
HCStop ==
  /\ ~hc.stopped
  /\ hc' = [hc EXCEPT !.stopped = TRUE]
  /\ UNCHANGED <<gwVars, lb, lbVars, ex, dl, rl, reg, env, pb>>

\* The context handed to Start is cancelled.
HCCancel ==
  /\ ~hc.ctxDone
  /\ hc' = [hc EXCEPT !.ctxDone = TRUE]
  /\ UNCHANGED <<gwVars, lb, lbVars, ex, dl, rl, reg, env, pb>>

\* The checker as NewChecker builds it and main starts it: no callback is
\* registered yet.  The balanced service has up to NumBackends backends,
\* the others their single default backend.
InitHC ==
  /\ InitGateway
  /\ strategy = "round-robin"
  /\ InitSelectors
  /\ ex = NoExec
  /\ dl = NoDelay
  /\ rl = NoLimiter
  /\ reg = NoRegistry
  /\ env = AnyEnv
  /\ pb = NoParse
  /\ \E size \in [Services -> 1..NumBackends] :
       /\ \A s \in Services \ {LBService} : size[s] = 1
       /\ hc = [NoChecker EXCEPT
                 !.c = NewChecker(size, MainCallbacks),
                 !.delivered = [s \in Services |->
                                  [b \in 0..(size[s] - 1) |-> StatusUnknown]],
                 !.unreported = [s \in Services |->
                                   [b \in 0..(size[s] - 1) |-> FALSE]]]
       /\ lb = NewSelector(size[LBService])

NextHC ==
  \/ HCBeginRound
  \/ \E s \in Services, b \in Backends, ok \in BOOLEAN : HCProbe(s, b, ok)
  \/ \E s \in Services, b \in Backends : HCRecord(s, b)
  \/ \E s \in Services, b \in Backends : HCCopy(s, b)
  \/ \E s \in Services, b \in Backends : HCNotify(s, b)
  \/ HCRegister
  \/ HCAggregate
  \/ HCReturn
  \/ HCStop
  \/ HCCancel

SpecHC == InitHC /\ [][NextHC]_vars

\* The goroutine of Start runs, every probe finishes (the client has a
\* timeout) and its callbacks return, and a select offered stopCh or
\* ctx.Done again and again takes it (the choice among the ready cases is
\* random).
SpecHCLive ==
  /\ InitHC /\ [][NextHC]_vars
  /\ WF_vars(HCBeginRound)
  /\ WF_vars(\E s \in Services, b \in Backends, ok \in BOOLEAN : HCProbe(s, b, ok))
  /\ WF_vars(\E s \in Services, b \in Backends : HCRecord(s, b))
  /\ WF_vars(\E s \in Services, b \in Backends : HCCopy(s, b))
  /\ WF_vars(\E s \in Services, b \in Backends : HCNotify(s, b))
  /\ WF_vars(HCAggregate)
  /\ SF_vars(HCReturn)

(***************************************************************************)
(* The registry alone: concurrent callers of Get, each for any service.    *)
(* Get is two steps, one per critical section; ResetByName and Reset do    *)
(* not touch the map.                                                      *)
(***************************************************************************)
\* Get up to RUnlock: return the breaker found, or go on to take the lock.
RegLookup(c, name) ==
  /\ reg.call[c] = ""
  /\ LET found == Lookup(reg.r, name)
     IN  reg' = IF found # Nil
                THEN [reg EXCEPT !.returned[name] = @ \cup {found}]
                ELSE [reg EXCEPT !.call[c] = name]
  /\ UNCHANGED <<gwVars, lb, lbVars, ex, dl, rl, hc, env, pb>>

\* Get from Lock to its return.
RegCreate(c) ==
  /\ reg.call[c] # ""
  /\ LET name == reg.call[c]
         got  == GetOrCreate(reg.r, name)
     IN  reg' = [reg EXCEPT
           !.r = got.r,
           !.call[c] = "",
           !.created[name] = @ + (got.r.made - reg.r.made),
           !.returned[name] = @ \cup {got.cb},
           !.raced = @ \/ got.r = reg.r]
  /\ UNCHANGED <<gwVars, lb, lbVars, ex, dl, rl, hc, env, pb>>

NextReg ==
  \/ \E c \in Callers, name \in Services : RegLookup(c, name)
  \/ \E c \in Callers : RegCreate(c)

SpecReg == Init /\ [][NextReg]_vars

(***************************************************************************)
(* The parser of the backend lists alone: one entry is parsed.             *)
(***************************************************************************)
\* The entries: the non-empty sequences of up to MaxEntry tokens.
Entries == UNION {[1..n -> Tokens] : n \in 1..MaxEntry}

\* One iteration of the loop of parseBackendsEnv.
ParseEntry ==
  /\ ~pb.done
  /\ pb' = [pb EXCEPT !.done = TRUE, !.out = ParseBackend(pb.part)]
  /\ UNCHANGED <<gwVars, lb, lbVars, ex, dl, rl, hc, reg, env>>

InitParse ==
  /\ InitGateway
  /\ lb = NewLoadBalancer
  /\ strategy = "round-robin"
  /\ InitSelectors
  /\ ex = NoExec
  /\ dl = NoDelay
  /\ rl = NoLimiter
  /\ hc = NoChecker
  /\ reg = NoRegistry
  /\ env = AnyEnv
  /\ \E part \in Entries : pb = [NoParse EXCEPT !.part = part]

NextParse == ParseEntry

SpecParse == InitParse /\ [][NextParse]_vars

(***************************************************************************)
(* Properties.                                                             *)
(***************************************************************************)
Zeroed(c) ==
  c.failures = 0 /\ c.consecutiveSuccesses = 0 /\ c.halfOpenRequests = 0

\* C1: starting from closed, the breaker opens exactly when the number of
\* RecordFailure calls since the last RecordSuccess (or Reset, or half-open
\* close) reaches MaxFailures; with fewer it remains closed.
C1_OpensAtMaxFailures ==
  /\ cb.state = StateClosed => hist.consecFails < config.MaxFailures
  /\ (ev.op \in {"allow", "record", "reset"} /\ ev.pre.state = StateClosed) =>
       IF hist.consecFails >= config.MaxFailures
       THEN cb.state = StateOpen
       ELSE cb.state = StateClosed

C1_Witness ==
  /\ ev.op = "record" /\ ~ev.ok
  /\ ev.pre.state = StateClosed /\ ev.pre.failures = config.MaxFailures - 1
  /\ hist.consecFails = config.MaxFailures
  /\ cb.state = StateOpen

\* C2: while the breaker is open and less than ResetTimeout has elapsed
\* since lastFailure, AllowRequest returns false and leaves the breaker as
\* it is, and the proxy answers the request 503.
C2_OpenDeniesBeforeTimeout ==
  (/\ ev.op = "allow"
   /\ ev.pre.state = StateOpen
   /\ now - ev.pre.lastFailure < config.ResetTimeout) =>
     /\ ~ev.ok
     /\ cb = ev.pre
     /\ ev.http = 503
     /\ req[ev.id].pc = "idle"

C2_Witness ==
  /\ ev.op = "allow" /\ ~ev.ok /\ ev.http = 503
  /\ ev.pre.state = StateOpen
  /\ now - ev.pre.lastFailure = config.ResetTimeout - 1
  /\ \E r \in Reqs : req[r].pc # "idle"

\* C3: once ResetTimeout has elapsed since lastFailure in open, the next
\* AllowRequest returns true and moves the breaker to half-open, and only a
\* call that finds the breaker open performs that transition: every other
\* AllowRequest leaves the state as it found it.
C3_TimeoutAdmitsOnce ==
  /\ (/\ ev.op = "allow"
      /\ ev.pre.state = StateOpen
      /\ now - ev.pre.lastFailure >= config.ResetTimeout) =>
        /\ ev.ok
        /\ cb.state = StateHalfOpen
        /\ call[ev.id] = "admitted"
        /\ hist.phaseAdmits = 1
  /\ (ev.op = "allow" /\ ev.pre.state # StateOpen) => cb.state = ev.pre.state

C3_Witness ==
  /\ ev.op = "allow" /\ ev.ok
  /\ ev.pre.state = StateOpen
  /\ now - ev.pre.lastFailure >= config.ResetTimeout
  /\ cb.state = StateHalfOpen
  /\ \E c \in Callers : c # ev.id /\ call[c] = "idle"

\* C4 as stated: while the breaker is half-open, the requests admitted in
\* this half-open phase that have not yet recorded an outcome never exceed
\* HalfOpenMaxRequests.
C4_Original ==
  cb.state = StateHalfOpen => Cardinality(probe) <= config.HalfOpenMaxRequests

\* C4 as amended: while the breaker is half-open, the requests admitted in
\* this half-open phase that have not yet recorded an outcome never exceed
\* HalfOpenMaxRequests + 1 (the transitioning call is not counted).
C4_ProbesAtMostMaxPlusOne ==
  /\ probe \subseteq {c \in Callers : call[c] = "admitted"}
  /\ cb.state = StateHalfOpen =>
       Cardinality(probe) <= config.HalfOpenMaxRequests + 1

C4_Witness ==
  /\ cb.state = StateHalfOpen
  /\ Cardinality(probe) = config.HalfOpenMaxRequests + 1
  /\ ev.op = "allow" /\ ~ev.ok

\* C5: in one half-open phase in which no outcome is recorded, exactly
\* HalfOpenMaxRequests + 1 AllowRequest calls are admitted: the
\* transitioning call, which does not increment halfOpenRequests, and
\* HalfOpenMaxRequests counted calls; every later call is denied.
C5_HalfOpenAdmitsMaxPlusOne ==
  (cb.state = StateHalfOpen /\ hist.phaseClean) =>
    /\ hist.phaseAdmits = cb.halfOpenRequests + 1
    /\ hist.phaseAdmits <= config.HalfOpenMaxRequests + 1
    /\ (ev.op = "allow" /\ ~ev.ok) =>
         hist.phaseAdmits = config.HalfOpenMaxRequests + 1
    /\ (ev.op = "allow" /\ ev.pre.state = StateOpen) => cb.halfOpenRequests = 0

C5_Witness ==
  /\ cb.state = StateHalfOpen /\ hist.phaseClean
  /\ ev.op = "allow" /\ ~ev.ok
  /\ hist.phaseAdmits = config.HalfOpenMaxRequests + 1

\* C6: after SuccessThreshold RecordSuccess calls in half-open the breaker
\* is closed, with failures, consecutiveSuccesses and halfOpenRequests zero.
C6_ClosesAfterSuccessThreshold ==
  /\ cb.state = StateHalfOpen => hist.phaseSucc < config.SuccessThreshold
  /\ (/\ ev.op = "record" /\ ev.ok
      /\ ev.pre.state = StateHalfOpen
      /\ cb.state # StateHalfOpen) =>
        cb.state = StateClosed /\ Zeroed(cb)

C6_Witness ==
  /\ ev.op = "record" /\ ev.ok
  /\ ev.pre.state = StateHalfOpen
  /\ ev.pre.consecutiveSuccesses = config.SuccessThreshold - 1
  /\ ev.pre.halfOpenRequests > 0 /\ ev.pre.failures > 0
  /\ cb.state = StateClosed

\* C7: a RecordFailure while the breaker is half-open moves it to open,
\* resets consecutiveSuccesses and stamps lastFailure with the current
\* time, so that AllowRequest is denied for a full ResetTimeout.
C7_HalfOpenFailureReopens ==
  (ev.op = "record" /\ ~ev.ok /\ ev.pre.state = StateHalfOpen) =>
    /\ cb.state = StateOpen
    /\ cb.consecutiveSuccesses = 0
    /\ cb.lastFailure = now
    /\ \A t \in now..(now + config.ResetTimeout - 1) : ~AllowRequest(cb, t).ok

C7_Witness ==
  /\ ev.op = "record" /\ ~ev.ok
  /\ ev.pre.state = StateHalfOpen
  /\ ev.pre.consecutiveSuccesses > 0
  /\ ev.pre.lastFailure < now
  /\ cb.state = StateOpen

\* C8: whenever the breaker is closed, failures < MaxFailures, and a
\* RecordSuccess in closed sets failures to 0.
C8_ClosedFailuresBelowMax ==
  /\ cb.state = StateClosed => cb.failures < config.MaxFailures
  /\ (ev.op = "record" /\ ev.ok /\ ev.pre.state = StateClosed) =>
       cb.state = StateClosed /\ cb.failures = 0

C8_Witness ==
  /\ ev.op = "record" /\ ev.ok
  /\ ev.pre.state = StateClosed /\ ev.pre.failures > 0
  /\ cb.failures = 0

\* C9: Reset moves the breaker from any state to closed with failures,
\* consecutiveSuccesses and halfOpenRequests cleared, and the next
\* AllowRequest returns true however recent the last failure is.
C9_ResetCloses ==
  ev.op = "reset" =>
    /\ cb.state = StateClosed /\ Zeroed(cb)
    /\ AllowRequest(cb, now).ok

C9_Witness ==
  /\ ev.op = "reset"
  /\ ev.pre.state = StateOpen
  /\ now - cb.lastFailure < config.ResetTimeout
  /\ cb.state = StateClosed

\* The result with which the loop of Execute returns.
Returned(result) ==
  \/ result.LastError = ErrContext
  \/ result.Attempts >= 1 /\ ~ShouldRetry(retryer, result.StatusCode)
  \/ result.Attempts = MaxRetries + 1

\* C10: a proxied request makes at most one RecordSuccess/RecordFailure
\* call, after the retry loop has returned and by the final status alone
\* (failure iff it is >= 500); while the request is in the loop it has made
\* none, so a request whose last attempt is answered below 500 after
\* retried attempts adds no failure.
C10_OutcomeFromFinalStatusOnly ==
  /\ \A r \in Reqs :
       /\ req[r].recs <= 1
       /\ req[r].pc # "idle" => req[r].recs = 0
  /\ ev.op = "record" =>
       /\ Returned(ev.result)
       /\ req[ev.id].recs = 1
       /\ ev.ok = (ev.result.StatusCode < 500)
       /\ cb = afterRequest(ev.pre, ev.result.StatusCode < 500, now)
       /\ ev.result.StatusCode < 500 =>
            cb.failures <= ev.pre.failures /\ cb.lastFailure = ev.pre.lastFailure

C10_Witness ==
  /\ ev.op = "record" /\ ev.ok
  /\ ev.result.Retried /\ ev.result.Attempts = 2
  /\ ev.result.StatusCode = 200
  /\ ev.pre.state = StateClosed /\ ev.pre.failures > 0
  /\ cb.failures = 0

\* C11: a request that AllowRequest denies is answered 503 and ends there:
\* the load balancer is as it was (Select was not called), the request has
\* no backend, has made no attempt (the retry engine did not run, no backend
\* was contacted), and the breaker is as it was (no outcome recorded).
C11_DeniedAnsweredWithoutDispatch ==
  (ev.op = "allow" /\ ~ev.ok) =>
    /\ ev.http = 503
    /\ lb = ev.lb
    /\ cb = ev.pre
    /\ req[ev.id] = IdleReq
    /\ req[ev.id].backend = Nil /\ req[ev.id].attempt = 0
    /\ req[ev.id].result.Attempts = 0 /\ req[ev.id].recs = 0

C11_Witness ==
  /\ ev.op = "allow" /\ ~ev.ok /\ ev.http = 503
  /\ ev.pre.state = StateHalfOpen
  /\ lb.counter # 0
  /\ \E r \in Reqs : r # ev.id /\ req[r].pc = "retry" /\ req[r].attempt = 1

\* C12: Select (round-robin or random) never returns a backend whose
\* IsHealthy flag is false during the call, and returns none when every
\* backend is unhealthy or the list is empty.
C12_SelectReturnsHealthyOrNone ==
  lbev.op = "select" =>
    /\ lbev.backend # Nil =>
         lbev.backend \in DOMAIN lb.healthy /\ lb.healthy[lbev.backend]
    /\ (NumOf(lb) = 0 \/ HealthyCount(lb) = 0) => lbev.backend = Nil

C12_Witness ==
  /\ lbev.op = "select" /\ lbev.backend # Nil
  /\ strategy = "round-robin"
  /\ HealthyCount(lb) < NumOf(lb)
  /\ \E c \in Selectors : scan[c] > 0

\* C13 as stated: round-robin Select returns none if and only if no
\* backend is healthy (the flags cannot change during a call), also when
\* several calls run concurrently.
C13_NoneIffNoHealthy ==
  (strategy = "round-robin" /\ lbev.op = "select") =>
    (lbev.backend = Nil <=> HealthyCount(lb) = 0)

\* The number of b among the results from..to of p.
PickCount(p, b, from, to) == Cardinality({i \in from..to : p[i] = b})

\* C14: with all k backends healthy, among any N consecutive results of
\* round-robin Select (in the order of their counter increments) each
\* backend occurs between floor(N/k) - 1 and ceil(N/k) + 1 times.
C14_RoundRobinFair ==
  (strategy = "round-robin" /\ picks # << >>) =>
    \A from \in 1..Len(picks), to \in 1..Len(picks), b \in DOMAIN lb.healthy :
      from <= to =>
        LET N == to - from + 1
            k == NumOf(lb)
            c == PickCount(picks, b, from, to)
        IN  /\ c >= (N \div k) - 1
            /\ c <= ((N + k - 1) \div k) + 1

C14_Witness ==
  /\ strategy = "round-robin"
  /\ Len(picks) = MaxWindow
  /\ NumOf(lb) = NumBackends
  /\ lb.counter # 0

\* What fn returned ends the loop: no error and a status that is not
\* retryable, or an error that is not transient.
FinalOutcome(ret) ==
  \/ ret.err = ErrNil /\ ~ShouldRetry(ex.rt, ret.status)
  \/ ret.err # ErrNil /\ ~isTransientError(ret.err)

\* C15: Execute returns right after a call of fn that returns no error
\* with a non-retryable status, or a non-transient error, carrying what fn
\* returned; if that is the first call, Attempts = 1 and Retried = false.
\* After a transient error or a retryable status it goes on to the next
\* loop iteration while calls <= MaxRetries, and an iteration that does not
\* find the context cancelled invokes fn.
C15_StopsOnFinalOutcome ==
  /\ ex.op = "fn" =>
       IF FinalOutcome(ex.last)
       THEN /\ ex.pc = "done"
            /\ ex.result.StatusCode = ex.last.status
            /\ ex.result.LastError = ex.last.err
            /\ ex.calls = 1 => (ex.result.Attempts = 1 /\ ~ex.result.Retried)
       ELSE IF ex.calls <= ex.rt.MaxRetries
            THEN ex.pc = "begin" /\ ex.attempt = ex.calls
            ELSE ex.pc = "done"
  /\ (ex.op = "begin" /\ ~ex.saw) =>
       ex.pc = "fn" /\ ex.result.Attempts = ex.calls + 1

C15_Witness ==
  /\ ex.op = "fn" /\ ex.pc = "done"
  /\ ex.calls = 1 /\ ex.rt.MaxRetries >= 1
  /\ ex.last.err = "permanent error"
  /\ ex.result.Attempts = 1 /\ ~ex.result.Retried

\* C16 as stated: fn is invoked at most MaxRetries + 1 times, and whenever
\* Execute has returned and every call of fn returned a retryable status
\* without error, fn was invoked exactly MaxRetries + 1 times and the result
\* carries the last status and a non-nil LastError.
C16_Original ==
  /\ ex.calls <= ex.rt.MaxRetries + 1
  /\ (ex.pc = "done" /\ ex.calls >= 1 /\ ex.allRetry) =>
       /\ ex.calls = ex.rt.MaxRetries + 1
       /\ ex.result.StatusCode = ex.last.status
       /\ ex.result.LastError # ErrNil

\* The state part of C16 as amended.
C16_Budget ==
  /\ ex.calls <= ex.rt.MaxRetries + 1
  /\ (ex.pc = "done" /\ ex.calls >= 1 /\ ex.allRetry /\ ~ex.saw) =>
       /\ ex.calls = ex.rt.MaxRetries + 1
       /\ ex.result.StatusCode = ex.last.status
       /\ ShouldRetry(ex.rt, ex.result.StatusCode)
       /\ ex.result.LastError = ErrMaxRetries

\* C16 as amended: fn is invoked at most MaxRetries + 1 times and Execute
\* returns; when it returns otherwise than on a cancelled context and every
\* call of fn returned a retryable status without error, fn was invoked
\* exactly MaxRetries + 1 times (once for MaxRetries = 0) and the result
\* carries the last status and the error "max retries exceeded".
C16_ReturnsWithinBudget == []C16_Budget /\ <>(ex.pc = "done")

C16_Witness ==
  /\ ex.pc = "done" /\ ex.allRetry /\ ~ex.saw
  /\ ex.rt.MaxRetries >= 2
  /\ ex.calls = ex.rt.MaxRetries + 1
  /\ ex.result.LastError = ErrMaxRetries

\* C17: an iteration that finds the context cancelled, before the attempt
\* or during the backoff sleep, makes Execute return with LastError the
\* context's error, fn having been invoked only in the earlier iterations;
\* a cancelled context is found by the next iteration that begins.
C17_CancellationStops ==
  /\ ex.op = "begin" => (ex.ctxDone <=> ex.saw)
  /\ (ex.op = "begin" /\ ex.saw) =>
       /\ ex.pc = "done"
       /\ ex.result.LastError = ErrContext
       /\ ex.calls = ex.attempt
  /\ ex.pc = "done" => ex.calls <= ex.attempt + 1

C17_Witness ==
  /\ ex.op = "begin" /\ ex.saw /\ ex.pc = "done"
  /\ ex.result.Retried /\ ex.calls = 1 /\ ex.rt.MaxRetries >= 2
  /\ ex.result.LastError = ErrContext
  /\ ex.result.StatusCode = 503

\* C18 as stated: on every return of Execute, Attempts is the number of
\* times fn was invoked, and Retried holds only if fn was invoked more than
\* once, returns caused by cancellation included.
C18_AttemptsCountsCalls ==
  ex.pc = "done" =>
    /\ ex.result.Attempts = ex.calls
    /\ ex.result.Retried => ex.calls > 1

\* delay_i = min(max_delay, initial_delay * multiplier^i) of retryer rt.
NominalDelay(rt, i) ==
  LET exp == RatMul(Rat(rt.InitialDelay, 1), RatPow(rt.Multiplier, i))
  IN  IF RatLeq(Rat(rt.MaxDelay, 1), exp) THEN Rat(rt.MaxDelay, 1) ELSE exp

\* Durations in order.
DurLeq(a, b) == a.ms < b.ms \/ (a.ms = b.ms /\ a.ns <= b.ns)

\* x milliseconds, x >= 0, are a whole number of nanoseconds.
IsWholeNs(x) ==
  LET k == (x.n % x.d) * 1000 IN ((k % x.d) * 1000) % x.d = 0

\* The duration out is at least, at most, exactly x milliseconds, x >= 0.
AtLeast(out, x) ==
  /\ DurLeq(Truncate(x), out)
  /\ IsWholeNs(x) \/ out # Truncate(x)

AtMost(out, x) == DurLeq(out, Truncate(x))

Exactly(out, x) == IsWholeNs(x) /\ out = Truncate(x)

\* C19 as stated: for every retry index i >= 0 and every configuration as
\* retry.New validates it, the delay before attempt i + 1 lies within
\* [delay_i * (1 - j), delay_i * (1 + j)], j being the jitter factor, and
\* equals delay_i when j = 0.
C19_DelayWithinJitterBand ==
  dl.done =>
    LET rt  == NewRetryer(dl.cfg)
        d   == NominalDelay(rt, dl.attempt)
        j   == rt.JitterFactor
    IN  /\ AtLeast(dl.out, RatMul(d, RatAdd(Rat(1, 1), Rat(-j.n, j.d))))
        /\ AtMost(dl.out, RatMul(d, RatAdd(Rat(1, 1), j)))
        /\ j.n = 0 => Exactly(dl.out, d)

\* C20: when the backends answer a proxied request with a retryable status
\* k times (1 <= k <= MaxRetries) and then with a non-retryable status s,
\* the client receives s with X-Retry-Count k; when the first answer is not
\* retryable, it receives that status and no X-Retry-Count header.
C20_RetryCountHeader ==
  ev.op = "record" =>
    LET a == ev.answers
        n == Len(a)
    IN  (/\ n >= 1
         /\ ~ShouldRetry(retryer, a[n])
         /\ \A i \in 1..(n - 1) : ShouldRetry(retryer, a[i])) =>
          /\ n - 1 <= MaxRetries
          /\ ev.http = a[n]
          /\ ev.retryCount = IF n = 1 THEN NoHeader ELSE n - 1

C20_Witness ==
  /\ ev.op = "record"
  /\ ev.answers = <<503, 200>>
  /\ ev.http = 200 /\ ev.retryCount = 1


\* The time in which the limiter of l refills one token (1/rate seconds).
TokenPeriod(l) == (TicksPerSecond * l.window) \div l.requests

\* C21: for a key with no stored bucket, while the KV store answers and
\* less than 1/rate seconds have passed since the first call, the calls of
\* AllowWithBurst made one after another are admitted exactly up to the
\* BurstSize-th, and each later one is answered 429 with Remaining = 0.
C21_BurstThenDenied ==
  ( /\ rl.ev.op = "done"
    /\ ~rl.overlap
    /\ ~rl.failed
    /\ rl.ev.now - rl.first < TokenPeriod(rl.limiter) )
  => /\ rl.ev.resp.next = (rl.done <= BurstSize)
     /\ rl.done > BurstSize =>
          /\ rl.ev.resp.status = 429
          /\ rl.ev.result.Remaining = 0

\* C22: a call of AllowWithBurst during which the KV store failed a
\* pipeline returns an error, and the middleware answers it 500 without
\* handing the request on.
C22_StoreFailureAnswers500 ==
  (rl.ev.op = "done" /\ rl.ev.failed)
  => /\ rl.ev.result.err # ErrNil
     /\ rl.ev.resp.status = 500
     /\ ~rl.ev.resp.next

\* C23: the read-modify-write of AllowWithBurst is not atomic.  While the
\* store answers and the clock stands still, more requests than the bucket
\* holds are admitted only when a call began between the two pipelines of
\* another; the witness is such a run, where two calls read the same bucket
\* holding one token and both are admitted.
C23_OverAdmissionNeedsOverlap ==
  (rl.ticks = 0 /\ ~rl.failed /\ rl.admitted > BurstSize) => rl.overlap

C23_Witness ==
  /\ rl.ticks = 0
  /\ ~rl.failed
  /\ rl.admitted > BurstSize
  /\ rl.ev.op = "done"
  /\ rl.ev.resp.next
  /\ rl.ev.seen < 2 * TokenUnit

\* C24: a request whose API key has a non-zero RateLimit is limited at that
\* rate (its ResetAfter is the period of the key's own limit), and one
\* whose key has RateLimit 0 at the rate of RATE_LIMIT_RPM.
C24_KeyLimitApplies ==
  rl.ev.op = "done"
  => rl.ev.result.ResetAfter =
       TokenPeriod(NewRateLimiter(IF rl.keyLimit # 0 THEN rl.keyLimit
                                  ELSE RequestsPerMinute, WindowSeconds))


\* C25: once a probe round has completed and until the next one begins,
\* the aggregated status of each service is healthy if and only if one of
\* its instances is healthy by its last probe, and unhealthy otherwise;
\* before any round has completed it is unknown.
C25_AggregateFollowsInstances ==
  \A s \in Services :
    /\ ~hc.completed => hc.c.agg[s] = StatusUnknown
    /\ (hc.completed /\ hc.pc \in {"select", "exited"}) =>
         /\ hc.c.agg[s] = StatusHealthy <=>
              \E b \in DOMAIN hc.c.inst[s] : hc.c.inst[s][b] = StatusHealthy
         /\ hc.c.agg[s] \in {StatusHealthy, StatusUnhealthy}

C25_Witness ==
  /\ hc.completed
  /\ hc.pc = "select"
  /\ \E s \in Services :
       /\ hc.c.agg[s] = StatusHealthy
       /\ \E b \in DOMAIN hc.c.inst[s] : hc.c.inst[s][b] = StatusUnhealthy
       /\ \E b \in DOMAIN hc.c.inst[s] : hc.c.inst[s][b] = StatusHealthy
  /\ \E s \in Services : hc.c.agg[s] = StatusUnhealthy

\* C26: in the gateway as main wires it, once the checker has recorded an
\* instance of the balanced service as unhealthy, the healthy flag of that
\* backend in the load balancer is false.
C26_UnhealthyInstanceFlagged ==
  hc.c.callbacks = MainCallbacks =>
    \A b \in DOMAIN hc.c.inst[LBService] :
      hc.c.inst[LBService][b] = StatusUnhealthy => ~lb.healthy[b]

\* The context was cancelled after the request of a probe had succeeded:
\* the healthy status is still to be recorded.
C27_HealthyAfterCancel ==
  /\ hc.ctxDone
  /\ \E t \in hc.answers : t[3] = StatusHealthy

\* After Start has returned no probe is started and no result recorded.
ExitedStays ==
  hc.pc = "exited" => /\ hc'.pc = "exited"
                      /\ hc'.pending = {}
                      /\ hc'.c.inst = hc.c.inst
                      /\ hc'.c.agg = hc.c.agg

\* C27: the loop of Start returns once Stop has been called or the context
\* is cancelled, and after it has returned no probe round begins.
C27_LoopTerminates ==
  /\ (hc.stopped \/ hc.ctxDone) ~> (hc.pc = "exited")
  /\ [][ExitedStays]_vars

C27_Witness ==
  /\ hc.pc = "exited"
  /\ hc.completed
  /\ hc.stopped

\* C28: whatever the interleaving of the calls of Get, at most one breaker
\* is created per service name and every call for a name returns it.
C28_OneBreakerPerName ==
  \A n \in Services :
    /\ reg.created[n] <= 1
    /\ reg.returned[n] \subseteq {reg.r.breakers[n]}
    /\ Cardinality(reg.returned[n]) <= 1

C28_Witness ==
  /\ reg.raced
  /\ \E n \in Services :
       /\ reg.created[n] = 1
       /\ reg.returned[n] = {reg.r.breakers[n]}
       /\ \E c \in Callers : reg.call[c] = n


\* C29: with one backend always answering 502, the others 200 and all
\* flagged healthy, every request the client does not abandon ends with
\* 200, and its response carries X-Retry-Count: 1 exactly when its first
\* attempt went to the bad backend (and no X-Retry-Count otherwise).
C29_RetryReachesGoodBackend ==
  (ev.op = "record" /\ ev.result.LastError # ErrContext) =>
    /\ ev.http = 200
    /\ (ev.retryCount = 1) <=> (ev.answers[1] = 502)
    /\ ev.retryCount \in {NoHeader, 1}

\* C30: for a request with a method other than GET and HEAD, every attempt
\* hands the forward the whole body of the request, whatever the earlier
\* attempts read of it.
C30_EveryAttemptForwardsBody ==
  \A r \in Reqs :
    HasBody(req[r].method) =>
      \A i \in 1..Len(req[r].sent) : req[r].sent[i] = req[r].body

C30_Witness ==
  \E r \in Reqs :
    /\ req[r].method = "POST"
    /\ Len(req[r].body) = 2
    /\ Len(req[r].sent) = 2
    /\ req[r].consumed[1] = 1
    /\ req[r].sent[2] = req[r].body


\* C31: every call of RoundRobinSelector.Select advances the counter
\* exactly once, whether or not it skips unhealthy backends and whatever
\* the other callers do.
C31_CounterAdvancesOncePerSelect ==
  (lbev.op = "select" /\ strategy = "round-robin") => lbev.adds = 1


\* The status the recorder holds after the loop: that of the last forward,
\* 0 if none was made.
FinalStatus(answers) ==
  IF Len(answers) = 0 THEN 0 ELSE answers[Len(answers)]

\* C32: after the retry loop the breaker is what RecordFailure makes of it
\* if the final status is >= 500 (the 502 written by the forwarder's error
\* hook included), and what RecordSuccess makes of it otherwise.
C32_FinalStatusDecidesOutcome ==
  ev.op = "record" =>
    /\ ev.answers # << >> => ev.result.StatusCode = FinalStatus(ev.answers)
    /\ cb = IF FinalStatus(ev.answers) >= 500
            THEN RecordFailure(ev.pre, now)
            ELSE RecordSuccess(ev.pre, now)

C32_Witness ==
  /\ ev.op = "record"
  /\ FinalStatus(ev.answers) = 502
  /\ ev.pre.state = StateClosed
  /\ cb.failures = ev.pre.failures + 1
  /\ cb # RecordSuccess(ev.pre, now)


\* The backends a request was forwarded to, attempt by attempt, read off
\* the answers it got (each backend answering with its own status).
Targets(answers) == [i \in 1..Len(answers) |-> BackendOf(answers[i])]

\* C33: on every attempt after the first the proxy calls Select again and
\* forwards to the backend it returns, or to the previously selected one if
\* it returns none; the X-Backend header of the response names the backend
\* the final attempt was forwarded to.
C33_RetryForwardsToReselected ==
  /\ ev.op = "reselect" =>
       LET q == req[ev.id]
           t == Targets(q.answers)
       IN  /\ Len(t) = q.attempt /\ q.attempt > 1
           /\ ev.prev = t[Len(t) - 1]
           /\ t[Len(t)] = IF ev.picked # Nil THEN ev.picked ELSE ev.prev
           /\ q.backend = t[Len(t)]
  /\ (ev.op = "record" /\ ev.answers # << >>) =>
       ev.xBackend = Targets(ev.answers)[Len(ev.answers)]
  /\ \A r \in Reqs :
       (req[r].pc = "reselect" /\ req[r].sel = 0) =>
         Len(req[r].answers) = req[r].attempt - 1

\* A retry whose Select returned none went to the previous backend, and the
\* response says so.
C33_Witness ==
  /\ ev.op = "record" /\ Len(ev.answers) = 2
  /\ ev.answers[1] = ev.answers[2]
  /\ ev.xBackend = BackendOf(ev.answers[2])
  /\ ev.lb.healthy = [b \in Backends |-> FALSE]

\* A retry forwarded to the other backend Select returned.
C33_WitnessOther ==
  /\ ev.op = "reselect" /\ ev.picked # Nil /\ ev.picked # ev.prev
  /\ req[ev.id].pc = "record"


\* C34: the callbacks registered at the time are called for an instance
\* exactly when a probe changes its recorded status (the first change from
\* unknown included), with the service, the instance and whether the new
\* status is healthy; a probe that repeats the status calls none; and the
\* calls for an instance follow its changes in order.  So a call is
\* outstanding for an instance only while its status differs from the one
\* last reported for it; when none is outstanding the last report is the
\* status the instance has, unless its last change found no callback
\* registered (and then none was ever reported for it); and the proxy's
\* callback has set the backend's flag to what was reported.
C34_CallbacksFollowStatusChanges ==
  \A s \in Services : \A b \in DOMAIN hc.c.inst[s] :
    /\ <<s, b>> \in hc.notifying => hc.delivered[s][b] # hc.c.inst[s][b]
    /\ <<s, b>> \notin hc.notifying =>
         \/ hc.delivered[s][b] = hc.c.inst[s][b]
         \/ hc.unreported[s][b] /\ hc.delivered[s][b] = StatusUnknown
    /\ hc.c.callbacks = {} => hc.delivered[s][b] = StatusUnknown
    /\ ( /\ "UpdateBackendHealth" \in hc.c.callbacks
         /\ s = LBService
         /\ hc.delivered[s][b] # StatusUnknown )
         => lb.healthy[b] = (hc.delivered[s][b] = StatusHealthy)

\* The change of an instance to unhealthy has been reported and acted on
\* while the call for a change of another, from healthy to unhealthy, is
\* outstanding.
C34_Witness ==
  /\ hc.c.callbacks # {} /\ hc.completed
  /\ \E b \in DOMAIN hc.c.inst[LBService] :
       /\ hc.delivered[LBService][b] = StatusUnhealthy
       /\ <<LBService, b>> \notin hc.pending
       /\ ~lb.healthy[b]
  /\ \E p \in hc.notifying :
       /\ hc.delivered[p[1]][p[2]] = StatusHealthy
       /\ hc.c.inst[p[1]][p[2]] = StatusUnhealthy

\* A callback registered after an instance was found unhealthy: the change
\* is not reported and the backend stays flagged healthy.
C34_LateRegistration ==
  /\ "UpdateBackendHealth" \in hc.c.callbacks
  /\ \E b \in DOMAIN hc.c.inst[LBService] :
       /\ hc.c.inst[LBService][b] = StatusUnhealthy
       /\ hc.unreported[LBService][b]
       /\ <<LBService, b>> \notin hc.pending
       /\ lb.healthy[b]

\* A callback registered between the copy of the list and the calls: the
\* notification of the change ends without calling it.
C34_RegisteredAfterCopy ==
  /\ "UpdateBackendHealth" \in hc.c.callbacks
  /\ \E b \in DOMAIN hc.c.inst[LBService] :
       /\ <<LBService, b, {}>> \in hc.copies
       /\ hc.c.inst[LBService][b] = StatusUnhealthy
       /\ lb.healthy[b]

\* A run of digits.
IsNumber(s) == s # << >> /\ \A i \in 1..Len(s) : s[i] \in DOMAIN Digit

\* The entry scheme://host:port.
HostPort(port) == <<"http", Colon, "//host", Colon>> \o port

\* C35: an entry scheme://host:port is parsed as that URL with weight 1,
\* and an entry scheme://host:port:w as the URL scheme://host:port with
\* weight w.
C35_PortIsNotAWeight ==
  pb.done =>
    \A n \in 1..Len(pb.part) :
      LET port == SubSeq(pb.part, 5, n)
          w    == SubSeq(pb.part, n + 2, Len(pb.part))
      IN  IsNumber(port) =>
            /\ pb.part = HostPort(port) =>
                 pb.out = [URL |-> pb.part, Weight |-> 1]
            /\ (pb.part = HostPort(port) \o <<Colon>> \o w /\ IsNumber(w)) =>
                 pb.out = [URL |-> HostPort(port), Weight |-> Atoi(w).n]

\* The half of C35 about entries that carry a weight.
C35_WeightAfterPort ==
  pb.done =>
    \A n \in 1..Len(pb.part) :
      LET port == SubSeq(pb.part, 5, n)
          w    == SubSeq(pb.part, n + 2, Len(pb.part))
      IN  (IsNumber(port) /\ IsNumber(w)
             /\ pb.part = HostPort(port) \o <<Colon>> \o w) =>
            pb.out = [URL |-> HostPort(port), Weight |-> Atoi(w).n]

C35_WeightWitness ==
  /\ pb.done
  /\ pb.part = <<"http", Colon, "//host", Colon, "8", Colon, "2">>
  /\ pb.out = [URL |-> HostPort(<<"8">>), Weight |-> 2]


\* C36: a request that AllowRequest admitted has made exactly one
\* RecordSuccess or RecordFailure call on the breaker when it completes,
\* whether it completes after the retry loop or with the 503 of a service
\* without healthy backend or the 400 of an unreadable body.
C36_AdmittedRequestRecordsOnce ==
  ev.op \in {"select", "record"} =>
    /\ req[ev.id].pc = "idle"
    /\ req[ev.id].recs = 1


\* C37: a breaker that has entered half-open leaves it, for closed or for
\* open, if requests keep arriving and time advances, without admin reset.
C37_HalfOpenEnds ==
  (cb.state = StateHalfOpen) ~> (cb.state # StateHalfOpen)


\* C38: while the breaker is half-open, consecutiveSuccesses counts only
\* outcomes of requests admitted in the current half-open phase: it never
\* exceeds the number of those requests that have completed.
C38_SuccessesAreOfThisPhase ==
  cb.state = StateHalfOpen =>
    cb.consecutiveSuccesses <= hist.phaseAdmits - Cardinality(probe)


\* C39: RecordSuccess is called for a request only if at least one attempt
\* was forwarded and the final status is below 500; a request whose context
\* is cancelled before the first attempt records no success.
C39_SuccessNeedsAnAttempt ==
  (ev.op = "record" /\ ev.ok) =>
    /\ Len(ev.answers) >= 1
    /\ FinalStatus(ev.answers) < 500


\* C40: RecordSuccess and RecordFailure called while the breaker is open
\* change nothing of it (state, failures, consecutiveSuccesses, lastFailure,
\* halfOpenRequests); a late failure of a request admitted earlier does not
\* extend the open period.
C40_OpenIgnoresOutcomes ==
  (ev.op = "record" /\ ev.pre.state = StateOpen) =>
    /\ cb = ev.pre
    /\ beforeRequest(cb, ev.pre.lastFailure + config.ResetTimeout).err = ErrNil

\* A failure recorded while open, later than the failure that opened the
\* breaker.
C40_Witness ==
  /\ ev.op = "record" /\ ~ev.ok
  /\ ev.pre.state = StateOpen
  /\ now > ev.pre.lastFailure
  /\ cb.state = StateOpen /\ cb.lastFailure = ev.pre.lastFailure
  /\ cb.failures = config.MaxFailures

\* A success recorded while open.
C40_WitnessSuccess ==
  /\ ev.op = "record" /\ ev.ok
  /\ ev.pre.state = StateOpen
  /\ cb.state = StateOpen /\ cb.failures > 0

====
